---- MODULE Spec2Model ----
(***************************************************************************)
(* qrcon: kernel log to QR code console.                                   *)
(*                                                                         *)
(* The module models the QR generator library (qr_generate,                *)
(* qr_max_data_size and the encoder behind them) and the qrcon driver      *)
(* (payload fitter qrcon_compress_data, driver loop                        *)
(* qrcon_process_history, panic notifier).                                 *)
(***************************************************************************)
EXTENDS Integers, Naturals, Sequences, FiniteSets, TLC

(***************************************************************************)
(* Generator polynomials (log-domain coefficients), GF(256) tables and     *)
(* the per-version parameters.  C arrays are 0-based; the tuples here are  *)
(* 1-based, so element i of the C array is tuple element i + 1.            *)
(***************************************************************************)
P7 ==
    << 87, 229, 146, 149, 238, 102, 21 >>

P10 ==
    << 251, 67, 46, 61, 118, 70, 64, 94, 32, 45 >>

P15 ==
    << 8, 183, 61, 91, 202, 37, 51, 58, 58, 237, 140, 124, 5, 99, 105 >>

P18 ==
    << 215, 234, 158, 94, 184, 97, 118, 170, 79, 187, 152, 148, 252, 179, 5, 98,
       96, 153 >>

P20 ==
    << 17, 60, 79, 50, 61, 163, 26, 187, 202, 180, 221, 225, 83, 239, 156, 164,
       212, 212, 188, 190 >>

P22 ==
    << 210, 171, 247, 242, 93, 230, 14, 109, 221, 53, 200, 74, 8, 172, 98, 80,
       219, 134, 160, 105, 165, 231 >>

P24 ==
    << 229, 121, 135, 48, 211, 117, 251, 126, 159, 180, 169, 152, 192, 226, 228, 218,
       111, 0, 117, 232, 87, 96, 227, 21 >>

P26 ==
    << 173, 125, 158, 2, 103, 182, 118, 17, 145, 201, 111, 28, 165, 53, 161, 21,
       245, 142, 13, 102, 48, 227, 153, 145, 218, 70 >>

P28 ==
    << 168, 223, 200, 104, 224, 234, 108, 180, 110, 190, 195, 147, 205, 27, 232, 201,
       21, 43, 245, 87, 42, 195, 212, 119, 242, 37, 9, 123 >>

P30 ==
    << 41, 173, 145, 152, 216, 31, 179, 182, 50, 48, 110, 86, 239, 96, 222, 125,
       42, 173, 226, 193, 224, 130, 156, 37, 251, 216, 238, 40, 192, 180 >>

EXP_TABLE ==
    << 1, 2, 4, 8, 16, 32, 64, 128, 29, 58, 116, 232, 205, 135, 19, 38,
       76, 152, 45, 90, 180, 117, 234, 201, 143, 3, 6, 12, 24, 48, 96, 192,
       157, 39, 78, 156, 37, 74, 148, 53, 106, 212, 181, 119, 238, 193, 159, 35,
       70, 140, 5, 10, 20, 40, 80, 160, 93, 186, 105, 210, 185, 111, 222, 161,
       95, 190, 97, 194, 153, 47, 94, 188, 101, 202, 137, 15, 30, 60, 120, 240,
       253, 231, 211, 187, 107, 214, 177, 127, 254, 225, 223, 163, 91, 182, 113, 226,
       217, 175, 67, 134, 17, 34, 68, 136, 13, 26, 52, 104, 208, 189, 103, 206,
       129, 31, 62, 124, 248, 237, 199, 147, 59, 118, 236, 197, 151, 51, 102, 204,
       133, 23, 46, 92, 184, 109, 218, 169, 79, 158, 33, 66, 132, 21, 42, 84,
       168, 77, 154, 41, 82, 164, 85, 170, 73, 146, 57, 114, 228, 213, 183, 115,
       230, 209, 191, 99, 198, 145, 63, 126, 252, 229, 215, 179, 123, 246, 241, 255,
       227, 219, 171, 75, 150, 49, 98, 196, 149, 55, 110, 220, 165, 87, 174, 65,
       130, 25, 50, 100, 200, 141, 7, 14, 28, 56, 112, 224, 221, 167, 83, 166,
       81, 162, 89, 178, 121, 242, 249, 239, 195, 155, 43, 86, 172, 69, 138, 9,
       18, 36, 72, 144, 61, 122, 244, 245, 247, 243, 251, 235, 203, 139, 11, 22,
       44, 88, 176, 125, 250, 233, 207, 131, 27, 54, 108, 216, 173, 71, 142, 1 >>

LOG_TABLE ==
    << 175, 0, 1, 25, 2, 50, 26, 198, 3, 223, 51, 238, 27, 104, 199, 75,
       4, 100, 224, 14, 52, 141, 239, 129, 28, 193, 105, 248, 200, 8, 76, 113,
       5, 138, 101, 47, 225, 36, 15, 33, 53, 147, 142, 218, 240, 18, 130, 69,
       29, 181, 194, 125, 106, 39, 249, 185, 201, 154, 9, 120, 77, 228, 114, 166,
       6, 191, 139, 98, 102, 221, 48, 253, 226, 152, 37, 179, 16, 145, 34, 136,
       54, 208, 148, 206, 143, 150, 219, 189, 241, 210, 19, 92, 131, 56, 70, 64,
       30, 66, 182, 163, 195, 72, 126, 110, 107, 58, 40, 84, 250, 133, 186, 61,
       202, 94, 155, 159, 10, 21, 121, 43, 78, 212, 229, 172, 115, 243, 167, 87,
       7, 112, 192, 247, 140, 128, 99, 13, 103, 74, 222, 237, 49, 197, 254, 24,
       227, 165, 153, 119, 38, 184, 180, 124, 17, 68, 146, 217, 35, 32, 137, 46,
       55, 63, 209, 91, 149, 188, 207, 205, 144, 135, 151, 178, 220, 252, 190, 97,
       242, 86, 211, 171, 20, 42, 93, 158, 132, 60, 57, 83, 71, 109, 65, 162,
       31, 45, 67, 216, 183, 123, 164, 118, 196, 23, 73, 236, 127, 12, 111, 246,
       108, 161, 59, 82, 41, 157, 85, 170, 251, 96, 134, 177, 187, 204, 62, 90,
       203, 89, 95, 176, 156, 169, 160, 81, 11, 245, 22, 235, 122, 117, 44, 215,
       79, 174, 213, 233, 230, 231, 173, 232, 116, 214, 244, 234, 168, 80, 88, 175 >>

VPARAM ==
    << [poly |-> P7, g1_blocks |-> 1, g2_blocks |-> 0, g1_blk_size |-> 19],
       [poly |-> P10, g1_blocks |-> 1, g2_blocks |-> 0, g1_blk_size |-> 34],
       [poly |-> P15, g1_blocks |-> 1, g2_blocks |-> 0, g1_blk_size |-> 55],
       [poly |-> P20, g1_blocks |-> 1, g2_blocks |-> 0, g1_blk_size |-> 80],
       [poly |-> P26, g1_blocks |-> 1, g2_blocks |-> 0, g1_blk_size |-> 108],
       [poly |-> P18, g1_blocks |-> 2, g2_blocks |-> 0, g1_blk_size |-> 68],
       [poly |-> P20, g1_blocks |-> 2, g2_blocks |-> 0, g1_blk_size |-> 78],
       [poly |-> P24, g1_blocks |-> 2, g2_blocks |-> 0, g1_blk_size |-> 97],
       [poly |-> P30, g1_blocks |-> 2, g2_blocks |-> 0, g1_blk_size |-> 116],
       [poly |-> P18, g1_blocks |-> 2, g2_blocks |-> 2, g1_blk_size |-> 68],
       [poly |-> P20, g1_blocks |-> 4, g2_blocks |-> 0, g1_blk_size |-> 81],
       [poly |-> P24, g1_blocks |-> 2, g2_blocks |-> 2, g1_blk_size |-> 92],
       [poly |-> P26, g1_blocks |-> 4, g2_blocks |-> 0, g1_blk_size |-> 107],
       [poly |-> P30, g1_blocks |-> 3, g2_blocks |-> 1, g1_blk_size |-> 115],
       [poly |-> P22, g1_blocks |-> 5, g2_blocks |-> 1, g1_blk_size |-> 87],
       [poly |-> P24, g1_blocks |-> 5, g2_blocks |-> 1, g1_blk_size |-> 98],
       [poly |-> P28, g1_blocks |-> 1, g2_blocks |-> 5, g1_blk_size |-> 107],
       [poly |-> P30, g1_blocks |-> 5, g2_blocks |-> 1, g1_blk_size |-> 120],
       [poly |-> P28, g1_blocks |-> 3, g2_blocks |-> 4, g1_blk_size |-> 113],
       [poly |-> P28, g1_blocks |-> 3, g2_blocks |-> 5, g1_blk_size |-> 107],
       [poly |-> P28, g1_blocks |-> 4, g2_blocks |-> 4, g1_blk_size |-> 116],
       [poly |-> P28, g1_blocks |-> 2, g2_blocks |-> 7, g1_blk_size |-> 111],
       [poly |-> P30, g1_blocks |-> 4, g2_blocks |-> 5, g1_blk_size |-> 121],
       [poly |-> P30, g1_blocks |-> 6, g2_blocks |-> 4, g1_blk_size |-> 117],
       [poly |-> P26, g1_blocks |-> 8, g2_blocks |-> 4, g1_blk_size |-> 106],
       [poly |-> P28, g1_blocks |-> 10, g2_blocks |-> 2, g1_blk_size |-> 114],
       [poly |-> P30, g1_blocks |-> 8, g2_blocks |-> 4, g1_blk_size |-> 122],
       [poly |-> P30, g1_blocks |-> 3, g2_blocks |-> 10, g1_blk_size |-> 117],
       [poly |-> P30, g1_blocks |-> 7, g2_blocks |-> 7, g1_blk_size |-> 116],
       [poly |-> P30, g1_blocks |-> 5, g2_blocks |-> 10, g1_blk_size |-> 115],
       [poly |-> P30, g1_blocks |-> 13, g2_blocks |-> 3, g1_blk_size |-> 115],
       [poly |-> P30, g1_blocks |-> 17, g2_blocks |-> 0, g1_blk_size |-> 115],
       [poly |-> P30, g1_blocks |-> 17, g2_blocks |-> 1, g1_blk_size |-> 115],
       [poly |-> P30, g1_blocks |-> 13, g2_blocks |-> 6, g1_blk_size |-> 115],
       [poly |-> P30, g1_blocks |-> 12, g2_blocks |-> 7, g1_blk_size |-> 121],
       [poly |-> P30, g1_blocks |-> 6, g2_blocks |-> 14, g1_blk_size |-> 121],
       [poly |-> P30, g1_blocks |-> 17, g2_blocks |-> 4, g1_blk_size |-> 122],
       [poly |-> P30, g1_blocks |-> 4, g2_blocks |-> 18, g1_blk_size |-> 122],
       [poly |-> P30, g1_blocks |-> 20, g2_blocks |-> 4, g1_blk_size |-> 117],
       [poly |-> P30, g1_blocks |-> 19, g2_blocks |-> 6, g1_blk_size |-> 118] >>

MODE_STOP == 0

MODE_NUMERIC == 1

MODE_BINARY == 4

MAX_EC_SIZE == 30

MAX_BLK_SIZE == 123

NUM_CHARS_BITS ==
    << 0, 4, 7, 10 >>

POW10 ==
    << 1, 10, 100, 1000 >>

(* Minimum buffer sizes demanded by qr_generate. *)
MIN_DATA_SIZE == 4071

MIN_TMP_SIZE == 3706

Min(a, b) == IF a < b THEN a ELSE b

(***************************************************************************)
(* Version accessors.  In C the index is size_t v = version - 1, so        *)
(* version 0 wraps to SIZE_MAX and is rejected by v >= 40 like every       *)
(* version above 40.                                                       *)
(***************************************************************************)
VersionIndexValid(version) ==
    LET v == version - 1 IN v >= 0 /\ v < 40

qr_version_width(version) == ((version * 4) + 17) % 256

(* variant: group-2 blocks counted with the group-1 block size *)
qr_version_max_data_equal_blocks(version) ==
    IF ~VersionIndexValid(version) THEN 0
    ELSE VPARAM[version].g1_blk_size * VPARAM[version].g1_blocks
         + VPARAM[version].g1_blk_size * VPARAM[version].g2_blocks

qr_version_max_data(version) ==
    IF ~VersionIndexValid(version) THEN 0
    ELSE VPARAM[version].g1_blk_size * VPARAM[version].g1_blocks
         + (VPARAM[version].g1_blk_size + 1) * VPARAM[version].g2_blocks

qr_version_ec_size(version) ==
    IF ~VersionIndexValid(version) THEN 0
    ELSE LET poly == VPARAM[version].poly IN
         IF poly = P7 THEN 7
         ELSE IF poly = P10 THEN 10
         ELSE IF poly = P15 THEN 15
         ELSE IF poly = P18 THEN 18
         ELSE IF poly = P20 THEN 20
         ELSE IF poly = P22 THEN 22
         ELSE IF poly = P24 THEN 24
         ELSE IF poly = P26 THEN 26
         ELSE IF poly = P28 THEN 28
         ELSE IF poly = P30 THEN 30
         ELSE 0

qr_version_g1_blocks(version) ==
    IF ~VersionIndexValid(version) THEN 0 ELSE VPARAM[version].g1_blocks

qr_version_g2_blocks(version) ==
    IF ~VersionIndexValid(version) THEN 0 ELSE VPARAM[version].g2_blocks

qr_version_g1_blk_size(version) ==
    IF ~VersionIndexValid(version) THEN 0 ELSE VPARAM[version].g1_blk_size

qr_version_poly(version) ==
    IF ~VersionIndexValid(version) THEN << >> ELSE VPARAM[version].poly

(***************************************************************************)
(* Segments.  A segment is a record [type, length] (plus the bytes where   *)
(* an operator reads them).                                                *)
(***************************************************************************)
SEGMENT_BINARY == "SEGMENT_BINARY"

SEGMENT_NUMERIC == "SEGMENT_NUMERIC"

(* variant: the 8-bit length field of byte mode kept up to version 26 *)
qr_segment_length_bits_count_byte_8_to_26(segment, version) ==
    IF segment.type = SEGMENT_BINARY
    THEN (IF version <= 26 THEN 8 ELSE 16)
    ELSE IF segment.type = SEGMENT_NUMERIC
    THEN (IF version <= 9 THEN 10 ELSE IF version <= 26 THEN 12 ELSE 14)
    ELSE 0

qr_segment_length_bits_count(segment, version) ==
    IF segment.type = SEGMENT_BINARY
    THEN (IF version <= 9 THEN 8 ELSE 16)
    ELSE IF segment.type = SEGMENT_NUMERIC
    THEN (IF version <= 9 THEN 10 ELSE IF version <= 26 THEN 12 ELSE 14)
    ELSE 0

qr_segment_character_count(segment) ==
    IF segment.type = SEGMENT_BINARY THEN segment.length
    ELSE IF segment.type = SEGMENT_NUMERIC
    THEN LET data_bits == segment.length * 8
             last_chars == IF data_bits % 13 # 0
                           THEN ((data_bits % 13) + 1) \div 3 ELSE 0
         IN 4 * (data_bits \div 13) + last_chars
    ELSE 0

qr_segment_total_size_bits(segment, version) ==
    IF segment.type = SEGMENT_BINARY
    THEN 4 + qr_segment_length_bits_count(segment, version) + segment.length * 8
    ELSE IF segment.type = SEGMENT_NUMERIC
    THEN LET digits == qr_segment_character_count(segment)
             data_size == 10 * (digits \div 3) + NUM_CHARS_BITS[(digits % 3) + 1]
         IN 4 + qr_segment_length_bits_count(segment, version) + data_size
    ELSE 0

(***************************************************************************)
(* qr_max_data_size(version, url_len)                                      *)
(***************************************************************************)
(* variant: byte-mode overhead taken as 2 bytes (8-bit length field) *)
qr_max_data_size_short_header(version, url_len) ==
    IF version < 1 \/ version > 40 THEN 0
    ELSE LET max_data == qr_version_max_data(version) IN
         IF url_len > 0
         THEN (IF url_len + 5 >= max_data THEN 0
               ELSE ((max_data - url_len - 5) * 39) \div 40)
         ELSE max_data - 2

(* variant: byte-mode overhead not removed *)
qr_max_data_size_no_overhead(version, url_len) ==
    IF version < 1 \/ version > 40 THEN 0
    ELSE LET max_data == qr_version_max_data(version) IN
         IF url_len > 0
         THEN (IF url_len + 5 >= max_data THEN 0
               ELSE ((max_data - url_len - 5) * 39) \div 40)
         ELSE max_data

qr_max_data_size(version, url_len) ==
    IF version < 1 \/ version > 40 THEN 0
    ELSE LET max_data == qr_version_max_data(version) IN
         IF url_len > 0
         THEN (IF url_len + 5 >= max_data THEN 0
               ELSE ((max_data - url_len - 5) * 39) \div 40)
         ELSE max_data - 3

(***************************************************************************)
(* Bounds of the model.                                                    *)
(***************************************************************************)
(* versions handed to the library: 0..MaxVersionInput (0 and 41 invalid)   *)
MaxVersionInput == 41

(* URL lengths handed to qr_generate / qr_max_data_size: 0..MaxUrlLen      *)
MaxUrlLen == 16

(* with a URL, payload lengths are taken within NearCap of the capacity    *)
NearCap == 2

(***************************************************************************)
(* State.                                                                  *)
(*   gen_pc     : position of the library's caller: "query" before it asks *)
(*                for the capacity, "call" before qr_generate runs, "done" *)
(*                once qr_generate returned                                *)
(*   gen_args   : the version, URL, payload length and buffer sizes used   *)
(*   max_ret    : the value returned by qr_max_data_size                   *)
(*   gen_ret    : its return value                                         *)
(*   gen_events : the memory accesses it made on the caller's buffers      *)
(***************************************************************************)
VARIABLES gen_pc, gen_args, max_ret, gen_ret, gen_events

gen_vars == << gen_pc, gen_args, max_ret, gen_ret, gen_events >>

(***************************************************************************)
(* State of the driver.                                                    *)
(*   qr_version, recent_only : the driver's configuration                  *)
(*   zstd             : behaviour of the compressor on the log contents    *)
(*   kmsg_history_len, kmsg_history_pos : log buffer length and cursor     *)
(*   qr_payload_and_image_buf : what the shared payload/image buffer holds *)
(*   qr_payload_len, qr_width : payload length and width of the last QR    *)
(*   compressed_size, processed_src : results of the last fitter call      *)
(*   drv_pc           : "entry" before qrcon_process_history runs, "loop"  *)
(*                      inside its while loop, "done" after it returned    *)
(*   entry_len, start_pos, iterations, last_event, cover_to : history      *)
(*       variables: buffer length and cursor when the loop was entered,    *)
(*       number of loop iterations run, what the last iteration did with   *)
(*       which source range, and where the ranges handled so far end       *)
(***************************************************************************)
VARIABLES qr_version, recent_only, zstd, kmsg_history_len, kmsg_history_pos,
          qr_payload_and_image_buf, qr_payload_len, qr_width,
          compressed_size, processed_src, drv_pc,
          entry_len, start_pos, iterations, last_event, cover_to

drv_vars == << qr_version, recent_only, zstd, kmsg_history_len,
               kmsg_history_pos, qr_payload_and_image_buf, qr_payload_len,
               qr_width, compressed_size, processed_src, drv_pc,
               entry_len, start_pos, iterations, last_event, cover_to >>

(***************************************************************************)
(* State of the error-correction pass over an encoded message.             *)
(*   em_version : version of the message                                   *)
(*   em_input   : << data_len, pattern >>, the byte segment whose encoding *)
(*                fills the data region of em->data                        *)
(*   em_ec      : what the pass has written to em->data so far, a sequence *)
(*                of [at, bytes]: bytes stored from offset at              *)
(*   rs_pc      : "g1" / "g2" in the loop over the blocks of the group,    *)
(*                "done" after encoded_msg_compute_error_code returned     *)
(*   rs_i, rs_offset, rs_ec_offset : loop counter and the locals offset    *)
(*                and ec_offset of encoded_msg_compute_error_code          *)
(***************************************************************************)
VARIABLES em_version, em_input, em_ec, rs_pc, rs_i, rs_offset, rs_ec_offset

rs_vars == << em_version, em_input, em_ec, rs_pc, rs_i, rs_offset,
              rs_ec_offset >>

(***************************************************************************)
(* State of one walk of encoded_msg_iterator over an encoded message (the  *)
(* message is em_version, em_input and the parity in em_ec).               *)
(*   iter_offset : iter->offset, the number of bytes handed out            *)
(*   it_emitted  : the indices into em->data read so far, in order         *)
(*   it_byte     : the byte stored through the byte pointer by the last    *)
(*                 call that returned true                                 *)
(*   it_pc       : "next" while encoded_msg_iterator_next is being called, *)
(*                 "end" once it has returned false                        *)
(***************************************************************************)
VARIABLES iter_offset, it_emitted, it_byte, it_pc

it_vars == << iter_offset, it_emitted, it_byte, it_pc >>

(***************************************************************************)
(* State of one walk of segment_iterator over a segment, and of one call   *)
(* of get_next_13b.                                                        *)
(*   seg_type, seg_data : segment->type and the segment->length bytes at   *)
(*                   segment->data                                         *)
(*   sit_offset, sit_carry, sit_carry_len : iter->offset, iter->carry and  *)
(*                   iter->carry_len                                       *)
(*   sit_out     : [bits, size] stored by the last call that returned true *)
(*   sit_digits  : decimal digits (numeric) or bytes (binary) handed out   *)
(*   g13_call    : the last call of get_next_13b on seg_data: its offset   *)
(*                 argument, and once it has returned its value and the    *)
(*                 size it reported                                        *)
(*   num_pc      : "probe" before the direct call of get_next_13b, "next"  *)
(*                 while qr_segment_iterator_next is being called, "end"   *)
(*                 once it has returned false                              *)
(***************************************************************************)
VARIABLES seg_type, seg_data, sit_offset, sit_carry, sit_carry_len, sit_out,
          sit_digits, g13_call, num_pc

num_vars == << seg_type, seg_data, sit_offset, sit_carry, sit_carry_len,
               sit_out, sit_digits, g13_call, num_pc >>

(***************************************************************************)
(* State of one call of the fitter, qrcon_compress_data.                   *)
(*   fit_args : [z, version, src, src_size]: the compressor's view of the  *)
(*              log, the configured version, and the source range          *)
(*   fit_st   : the locals low, high, best_size, best_compressed_payload   *)
(*              of the search, the destination buffer, and the number of   *)
(*              compressions made                                          *)
(*   fit_res  : [ret, processed_size, dst, probes] once the call returned  *)
(*   fit_pc   : "validate" on entry, "search" in the while loop, "final"   *)
(*              after it, "done" after the return                          *)
(***************************************************************************)
VARIABLES fit_args, fit_st, fit_res, fit_pc

fit_vars == << fit_args, fit_st, fit_res, fit_pc >>

(***************************************************************************)
(* State of one run of encoded_msg_init and encoded_msg_add_segments.      *)
(*   enc_version  : the version handed to encoded_msg_init                 *)
(*   enc_segments : the segments, each [type, length, pattern]: pattern    *)
(*                  names the bytes at segment->data                       *)
(*   enc_data     : em->data, the bytes the encoder uses                   *)
(*   enc_offset   : the local offset of encoded_msg_add_segments, in bits  *)
(*   enc_i        : its loop counter i over the segments                   *)
(*   enc_iter     : its segment iterator [offset, carry, carry_len]        *)
(*   enc_total_bits : total_bits as computed by encoded_msg_init           *)
(*   enc_push     : the last call of encoded_msg_push: [kind, offset,      *)
(*                  number, len_bits, altered], altered telling whether a  *)
(*                  bit in front of offset changed                         *)
(*   enc_pad_offset : the local pad_offset                                 *)
(*   enc_pc       : "init" before encoded_msg_init, "rejected" when it     *)
(*                  returned false, then the position in                   *)
(*                  encoded_msg_add_segments: "header", "length", "data",  *)
(*                  "stop", "align", "padding", "done"                     *)
(***************************************************************************)
VARIABLES enc_version, enc_segments, enc_data, enc_offset, enc_i, enc_iter,
          enc_total_bits, enc_push, enc_pad_offset, enc_pc

enc_vars == << enc_version, enc_segments, enc_data, enc_offset, enc_i,
               enc_iter, enc_total_bits, enc_push, enc_pad_offset, enc_pc >>

(***************************************************************************)
(* State of the walk over the modules of the image.                        *)
(*   img_version : qr->version                                             *)
(*   img_x, img_y : the locals x and y of qr_image_draw_data, then the     *)
(*                 loop variables of qr_image_apply_mask                   *)
(*   img_iter    : iter->offset of the codeword iterator                   *)
(*   img_bit     : the loop variable bit of qr_image_draw_data             *)
(*   img_touched : the module last handed to qr_image_set by               *)
(*                 qr_image_draw_data or to qr_image_xor by                *)
(*                 qr_image_apply_mask, << x, y >>, or << >> if none       *)
(*   img_rest    : modules painted by the loop after the codewords         *)
(*   img_steps   : calls of qr_image_next made                             *)
(*   img_prev    : position in the standard placement order of the module  *)
(*                 that received the previous codeword bit, -1 if none     *)
(*   img_pc      : "walk" while qr_image_next is applied on its own and    *)
(*                 "walked" at the last module; in qr_image_draw: "data"   *)
(*                 in the loop over the codewords, "rest" in the loop      *)
(*                 after it, "mask" in qr_image_apply_mask, "done" after   *)
(***************************************************************************)
VARIABLES img_version, img_x, img_y, img_iter, img_bit, img_touched,
          img_rest, img_steps, img_prev, img_pc

img_vars == << img_version, img_x, img_y, img_iter, img_bit, img_touched,
               img_rest, img_steps, img_prev, img_pc >>

(***************************************************************************)
(* State of the panic notifier.                                            *)
(*   qrcon_initialized, panic_in_progress, panic_rendering_complete : the  *)
(*                 driver's flags of these names                           *)
(*   kmsg_lines  : the lengths of the lines kmsg_dump_get_line hands out   *)
(*                 after a rewind                                          *)
(*   pn_pc       : "idle" outside qrcon_panic_notifier, "running" while an *)
(*                 invocation is inside qrcon_process_history              *)
(*   pn_calls    : the invocations of qrcon_panic_notifier made so far, in *)
(*                 order: "uninitialized" or "complete" for one that     *)
(*                 returned at the first or the second check, "rendered"   *)
(*                 for one that went on                                    *)
(*   pn_renders  : invocations that went on to qrcon_process_history       *)
(***************************************************************************)
VARIABLES qrcon_initialized, panic_in_progress, panic_rendering_complete,
          kmsg_lines, pn_pc, pn_calls, pn_renders

pn_vars == << qrcon_initialized, panic_in_progress, panic_rendering_complete,
              kmsg_lines, pn_pc, pn_calls, pn_renders >>

vars == << gen_vars, drv_vars, rs_vars, it_vars, num_vars, fit_vars,
           enc_vars, img_vars, pn_vars >>

(* the notifier's variables while another part is exercised *)
PnParked ==
    /\ qrcon_initialized = FALSE
    /\ panic_in_progress = FALSE
    /\ panic_rendering_complete = FALSE
    /\ kmsg_lines = << >>
    /\ pn_pc = "parked"
    /\ pn_calls = << >>
    /\ pn_renders = 0


(* the image walk's variables while another part is exercised *)
ImgParked ==
    /\ img_version = 0
    /\ img_x = 0
    /\ img_y = 0
    /\ img_iter = 0
    /\ img_bit = 0
    /\ img_touched = << >>
    /\ img_rest = 0
    /\ img_steps = 0
    /\ img_prev = -1
    /\ img_pc = "parked"


(* the encoder's variables while another part is exercised *)
EncParked ==
    /\ enc_version = 0
    /\ enc_segments = << >>
    /\ enc_data = << >>
    /\ enc_offset = 0
    /\ enc_i = 0
    /\ enc_iter = [offset |-> 0, carry |-> 0, carry_len |-> 0]
    /\ enc_total_bits = 0
    /\ enc_push = [kind |-> "none", offset |-> 0, number |-> 0,
                   len_bits |-> 0, altered |-> FALSE]
    /\ enc_pad_offset = 0
    /\ enc_pc = "parked"


(* the fitter's variables while another part is exercised *)
FitParked ==
    /\ fit_args = [z |-> [poison_end |-> 0, overhead |-> 0, ratio |-> 1,
                          tier |-> 0, tier_ratio |-> 1],
                   version |-> 0, src |-> 0, src_size |-> 0]
    /\ fit_st = [low |-> 1, high |-> 0, best_size |-> 0,
                 best_compressed_payload |-> 0,
                 dst |-> [kind |-> "empty"], probes |-> 0]
    /\ fit_res = [ret |-> 0, processed_size |-> 0,
                  dst |-> [kind |-> "empty"], probes |-> 0]
    /\ fit_pc = "parked"

(* the segment iterator's variables while another part is exercised *)
NumParked ==
    /\ seg_type = "SEGMENT_BINARY"
    /\ seg_data = << >>
    /\ sit_offset = 0
    /\ sit_carry = 0
    /\ sit_carry_len = 0
    /\ sit_out = [bits |-> 0, size |-> 0]
    /\ sit_digits = 0
    /\ g13_call = [offset |-> 0, number |-> 0, size |-> 0, returned |-> FALSE]
    /\ num_pc = "parked"

(* the iterator's variables while another part is exercised *)
ItParked ==
    /\ iter_offset = 0
    /\ it_emitted = << >>
    /\ it_byte = 0
    /\ it_pc = "parked"

(* the encoder's variables while another part is exercised *)
RsParked ==
    /\ em_version = 1
    /\ em_input = << 0, "zeros" >>
    /\ em_ec = << >>
    /\ rs_pc = "parked"
    /\ rs_i = 0
    /\ rs_offset = 0
    /\ rs_ec_offset = 0

NoEvent == [kind |-> "none", pos |-> 0, len |-> 0]

EmptyBuf == [kind |-> "empty"]

(* the driver's variables while only the library is exercised *)
DrvParked ==
    /\ qr_version = 20
    /\ recent_only = 0
    /\ zstd = [poison_end |-> 0, overhead |-> 0, ratio |-> 1,
               tier |-> 0, tier_ratio |-> 1]
    /\ kmsg_history_len = 0
    /\ kmsg_history_pos = 0
    /\ qr_payload_and_image_buf = EmptyBuf
    /\ qr_payload_len = 0
    /\ qr_width = 0
    /\ compressed_size = 0
    /\ processed_src = 0
    /\ drv_pc = "parked"
    /\ entry_len = 0
    /\ start_pos = 0
    /\ iterations = 0
    /\ last_event = NoEvent
    /\ cover_to = 0

(* the library caller's variables while only the driver is exercised *)
GenParked ==
    /\ gen_pc = "parked"
    /\ gen_args = [url |-> << >>, data_len |-> 0, qr_version |-> 0,
                   data_size |-> 0, tmp_size |-> 0]
    /\ max_ret = 0
    /\ gen_ret = 0
    /\ gen_events = << >>

(* A URL argument is the NULL pointer or a string, of which only the       *)
(* length matters here: NULL is the empty tuple, a string of u bytes <<u>>. *)
NULL == << >>

strlen(url) == url[1]

(* Buffer sizes used by the driver (payload/image buffer and workspace).   *)
QR_PAYLOAD_AND_IMAGE_BUF_SIZE == 8192

QR_TMP_WORKSPACE_SIZE == 4096

(***************************************************************************)
(* Memory accesses are recorded as events [op, buf, lo, hi]: the call      *)
(* reads or writes bytes lo .. hi-1 of the named buffer.                   *)
(***************************************************************************)
Ev(op, buf, lo, hi) == [op |-> op, buf |-> buf, lo |-> lo, hi |-> hi]

RECURSIVE SumTotalBits(_, _, _)
SumTotalBits(segments, version, i) ==
    IF i > Len(segments) THEN 0
    ELSE qr_segment_total_size_bits(segments[i], version)
         + SumTotalBits(segments, version, i + 1)

(***************************************************************************)
(* encoded_msg_init: validates, then clears the whole buffer.  Returns     *)
(* [ok, events].                                                           *)
(***************************************************************************)
(* variant: the buffer is cleared before the capacity is checked *)
encoded_msg_init_clear_first(segments, version, data_size) ==
    IF Len(segments) = 0 \/ data_size = 0
    THEN [ok |-> FALSE, events |-> << >>]
    ELSE IF version < 1 \/ version > 40
    THEN [ok |-> FALSE, events |-> << >>]
    ELSE LET total_bits    == SumTotalBits(segments, version, 1) + 4
             max_data      == qr_version_max_data(version)
             required_size == max_data + qr_version_ec_size(version)
                                * (qr_version_g1_blocks(version)
                                   + qr_version_g2_blocks(version))
             cleared       == << Ev("write", "tmp", 0, data_size) >>
         IN IF total_bits > max_data * 8
            THEN [ok |-> FALSE, events |-> cleared]
            ELSE IF data_size < required_size
            THEN [ok |-> FALSE, events |-> cleared]
            ELSE [ok |-> TRUE, events |-> cleared]

encoded_msg_init(segments, version, data_size) ==
    IF Len(segments) = 0 \/ data_size = 0
    THEN [ok |-> FALSE, events |-> << >>]
    ELSE IF version < 1 \/ version > 40
    THEN [ok |-> FALSE, events |-> << >>]
    ELSE LET total_bits    == SumTotalBits(segments, version, 1) + 4
             max_data      == qr_version_max_data(version)
             required_size == max_data + qr_version_ec_size(version)
                                * (qr_version_g1_blocks(version)
                                   + qr_version_g2_blocks(version))
         IN IF total_bits > max_data * 8
            THEN [ok |-> FALSE, events |-> << >>]
            ELSE IF data_size < required_size
            THEN [ok |-> FALSE, events |-> << >>]
            ELSE [ok |-> TRUE,
                  events |-> << Ev("write", "tmp", 0, data_size) >>]

(***************************************************************************)
(* encoded_msg_encode: encoded_msg_add_segments reads every segment and    *)
(* fills the data area [0, max_data) of tmp (bits, terminator, padding),   *)
(* and the bytes behind it that the pushed bits reach;                     *)
(* encoded_msg_compute_error_code reads the data blocks and stores the     *)
(* parity of every block after them.                                       *)
(***************************************************************************)
(* variant: the segment readers look one byte past the segment *)
SegmentReads_past_length(segments) ==
    [i \in 1..Len(segments) |->
        Ev("read", segments[i].buf, 0, segments[i].length + 1)]

SegmentReads(segments) ==
    [i \in 1..Len(segments) |->
        Ev("read", segments[i].buf, 0, segments[i].length)]

(* the bits that the calls of qr_segment_iterator_next hand out for a      *)
(* segment: a byte per call for binary data; for numeric data four digits  *)
(* per 13 bit group, one digit for a tail of a single bit, (t + 1) / 3     *)
(* digits for a longer tail of t bits, handed out three digits (10 bits)   *)
(* at a time and the rest at the end                                       *)
qr_segment_iterator_bits(segment) ==
    IF segment.type = SEGMENT_BINARY THEN segment.length * 8
    ELSE LET data_bits == segment.length * 8
             tail      == data_bits % 13
             new_chars == IF tail = 0 THEN 0
                          ELSE IF tail = 1 THEN 1 ELSE (tail + 1) \div 3
             digits    == 4 * (data_bits \div 13) + new_chars
         IN 10 * (digits \div 3) + NUM_CHARS_BITS[(digits % 3) + 1]

(* the offset after the loop over the segments from segment i on: header,  *)
(* length field and the bits of the iterator                               *)
RECURSIVE PushedBits(_, _, _)
PushedBits(segments, version, i) ==
    IF i > Len(segments) THEN 0
    ELSE 4 + qr_segment_length_bits_count(segments[i], version)
         + qr_segment_iterator_bits(segments[i])
         + PushedBits(segments, version, i + 1)

encoded_msg_encode_events(segments, version) ==
    LET max_data == qr_version_max_data(version)
        ec_end   == max_data + qr_version_ec_size(version)
                      * (qr_version_g1_blocks(version)
                         + qr_version_g2_blocks(version))
        pushed   == (PushedBits(segments, version, 1) + 4 + 7) \div 8
        last     == IF pushed > max_data THEN pushed ELSE max_data
    IN SegmentReads(segments)
       \o << Ev("write", "tmp", 0, last),
             Ev("read", "tmp", 0, max_data),
             Ev("write", "tmp", max_data, ec_end) >>

(***************************************************************************)
(* qr_image_init: size check, then clears stride * width bytes.            *)
(***************************************************************************)
(* variant: a byte for every module of a row *)
qr_image_stride_byte_per_module(version) == qr_version_width(version) % 256

qr_image_stride(version) == ((qr_version_width(version) + 7) \div 8) % 256

qr_image_init(version, data_size) ==
    LET buffer_size == qr_image_stride(version) * qr_version_width(version)
    IN IF data_size < buffer_size
       THEN [ok |-> FALSE, events |-> << >>]
       ELSE [ok |-> TRUE,
             events |-> << Ev("write", "data", 0, buffer_size) >>]

(***************************************************************************)
(* qr_image_draw: clears the image, draws the fixed patterns, places the   *)
(* interleaved codewords read from tmp, draws the format information and   *)
(* applies the mask.  Setting or inverting a module is an "update": the    *)
(* byte of the cleared image is read, changed and stored.                  *)
(***************************************************************************)
(* variant: the codewords are taken from the caller's data once more *)
qr_image_draw_events_from_data(version) ==
    LET buffer_size == qr_image_stride(version) * qr_version_width(version)
    IN << Ev("write", "data", 0, buffer_size),
          Ev("update", "data", 0, buffer_size),
          Ev("read", "data", 0, qr_version_max_data(version)),
          Ev("update", "data", 0, buffer_size) >>

qr_image_draw_events(version) ==
    LET buffer_size == qr_image_stride(version) * qr_version_width(version)
        ec_end      == qr_version_max_data(version) + qr_version_ec_size(version)
                         * (qr_version_g1_blocks(version)
                            + qr_version_g2_blocks(version))
    IN << Ev("write", "data", 0, buffer_size),
          Ev("update", "data", 0, buffer_size),
          Ev("read", "tmp", 0, ec_end),
          Ev("update", "data", 0, buffer_size) >>

(***************************************************************************)
(* qr_generate(url, data, data_len, qr_version, data_size, tmp, tmp_size)  *)
(* Returns [ret, events].                                                  *)
(***************************************************************************)
qr_generate_segments(url, data_len) ==
    IF url # NULL
    THEN << [type |-> SEGMENT_BINARY, buf |-> "url", length |-> strlen(url)],
            [type |-> SEGMENT_NUMERIC, buf |-> "data", length |-> data_len] >>
    ELSE << [type |-> SEGMENT_BINARY, buf |-> "data", length |-> data_len] >>

qr_generate(url, data_len, version, data_size, tmp_size) ==
    IF data_size < MIN_DATA_SIZE \/ tmp_size < MIN_TMP_SIZE
    THEN [ret |-> 0, events |-> << >>]
    ELSE IF version < 1 \/ version > 40
    THEN [ret |-> 0, events |-> << >>]
    ELSE LET segments == qr_generate_segments(url, data_len)
             em       == encoded_msg_init(segments, version, tmp_size)
         IN IF ~em.ok
            THEN [ret |-> 0, events |-> em.events]
            ELSE LET enc == encoded_msg_encode_events(segments, version)
                     qr  == qr_image_init(version, data_size)
                 IN IF ~qr.ok
                    THEN [ret |-> 0, events |-> em.events \o enc \o qr.events]
                    ELSE [ret |-> qr_version_width(version),
                          events |-> em.events \o enc \o qr.events
                                     \o qr_image_draw_events(version)]

(***************************************************************************)
(* The library specification: any caller may invoke qr_generate with any   *)
(* arguments; the state is the last call and what it did.                  *)
(***************************************************************************)
Versions == 0..MaxVersionInput

Urls == {NULL} \cup { << u >> : u \in 0..MaxUrlLen }

DataSizes == {MIN_DATA_SIZE - 1, MIN_DATA_SIZE, QR_PAYLOAD_AND_IMAGE_BUF_SIZE}

TmpSizes == {MIN_TMP_SIZE - 1, MIN_TMP_SIZE, QR_TMP_WORKSPACE_SIZE}

(* payload lengths tried: every length up to just over the byte capacity   *)
(* without a URL, the lengths around the reported capacity with one        *)
DataLens(version, url) ==
    IF url = NULL
    THEN 0..(qr_max_data_size(version, 0) + NearCap)
    ELSE LET c == qr_max_data_size(version, strlen(url))
         IN {0, 1} \cup {n \in (c - NearCap)..(c + NearCap) : n >= 0}

url_len_of(url) == IF url = NULL THEN 0 ELSE strlen(url)

GenInit ==
    /\ gen_pc = "query"
    /\ \E version \in Versions, url \in Urls,
          data_size \in DataSizes, tmp_size \in TmpSizes :
         \E data_len \in DataLens(version, url) :
           gen_args = [url |-> url, data_len |-> data_len,
                       qr_version |-> version,
                       data_size |-> data_size, tmp_size |-> tmp_size]
    /\ max_ret = 0
    /\ gen_ret = 0
    /\ gen_events = << >>
    /\ DrvParked
    /\ RsParked
    /\ ItParked
    /\ NumParked
    /\ FitParked
    /\ EncParked
    /\ ImgParked
    /\ PnParked

(* the caller asks for the capacity of the version and URL it will use *)
QrMaxDataSize ==
    /\ gen_pc = "query"
    /\ max_ret' = qr_max_data_size(gen_args.qr_version, url_len_of(gen_args.url))
    /\ gen_pc' = "call"
    /\ UNCHANGED << gen_args, gen_ret, gen_events >>
    /\ UNCHANGED drv_vars
    /\ UNCHANGED rs_vars
    /\ UNCHANGED it_vars
    /\ UNCHANGED num_vars
    /\ UNCHANGED fit_vars
    /\ UNCHANGED enc_vars
    /\ UNCHANGED img_vars
    /\ UNCHANGED pn_vars

QrGenerate ==
    /\ gen_pc = "call"
    /\ LET r == qr_generate(gen_args.url, gen_args.data_len,
                            gen_args.qr_version, gen_args.data_size,
                            gen_args.tmp_size)
       IN /\ gen_ret' = r.ret
          /\ gen_events' = r.events
    /\ gen_pc' = "done"
    /\ UNCHANGED << gen_args, max_ret >>
    /\ UNCHANGED drv_vars
    /\ UNCHANGED rs_vars
    /\ UNCHANGED it_vars
    /\ UNCHANGED num_vars
    /\ UNCHANGED fit_vars
    /\ UNCHANGED enc_vars
    /\ UNCHANGED img_vars
    /\ UNCHANGED pn_vars

GenNext == QrMaxDataSize \/ QrGenerate

SpecGen == GenInit /\ [][GenNext]_vars

(***************************************************************************)
(* Properties of the library.                                              *)
(***************************************************************************)
ValidVersion(v) == v >= 1 /\ v <= 40

(* D(v) = g1*s1 + g2*(s1+1), read off VPARAM *)
D(v) ==
    VPARAM[v].g1_blocks * VPARAM[v].g1_blk_size
    + VPARAM[v].g2_blocks * (VPARAM[v].g1_blk_size + 1)

(* bits of the framed segments of a call: mode headers, length fields,     *)
(* payload bits and the 4-bit terminator                                   *)
FramedBits(args) ==
    SumTotalBits(qr_generate_segments(args.url, args.data_len),
                 args.qr_version, 1) + 4

WritesOf(events) ==
    { i \in 1..Len(events) : events[i].op \in {"write", "update"} }

CapacityOverflow(args) ==
    /\ ValidVersion(args.qr_version)
    /\ FramedBits(args) > 8 * D(args.qr_version)

(* C5: qr_generate returns 0 on an invalid version, a data buffer under    *)
(* 4071 bytes, a tmp buffer under 3706 bytes or a capacity overflow, and   *)
(* in each of these cases it has written no byte of data or tmp.           *)
C5_FailureLeavesBuffersUntouched ==
    (/\ gen_pc = "done"
     /\ \/ ~ValidVersion(gen_args.qr_version)
        \/ gen_args.data_size < 4071
        \/ gen_args.tmp_size < 3706
        \/ CapacityOverflow(gen_args))
    => (gen_ret = 0 /\ WritesOf(gen_events) = {})

C5_Witness ==
    /\ gen_pc = "done"
    /\ gen_args.data_size >= 4071
    /\ gen_args.tmp_size >= 3706
    /\ CapacityOverflow(gen_args)
    /\ gen_ret = 0
    /\ gen_events = << >>

(* C6: without a URL, every version 1..40 and every payload length from 0  *)
(* to qr_max_data_size(v, 0) is accepted when the buffers are large        *)
(* enough, and the call returns the width 4v+17.                           *)
C6_GenerateReturnsWidth ==
    (/\ gen_pc = "done"
     /\ gen_args.url = NULL
     /\ ValidVersion(gen_args.qr_version)
     /\ gen_args.data_len <= max_ret
     /\ gen_args.data_size >= 4071
     /\ gen_args.tmp_size >= 3706)
    => gen_ret = 4 * gen_args.qr_version + 17

C6_Witness ==
    /\ gen_pc = "done"
    /\ gen_args.url = NULL
    /\ gen_args.qr_version = 5
    /\ gen_args.data_len = 0
    /\ gen_args.data_size >= 4071
    /\ gen_args.tmp_size >= 3706
    /\ gen_ret = 37

(* C7: qr_max_data_size(v, 0) is D(v) - 3 for v in 1..40, and the function *)
(* returns 0 for every version outside 1..40 whatever the URL length.      *)
C7_ByteCapacity ==
    gen_pc # "query"
    => /\ (ValidVersion(gen_args.qr_version) /\ url_len_of(gen_args.url) = 0)
          => max_ret = D(gen_args.qr_version) - 3
       /\ ~ValidVersion(gen_args.qr_version) => max_ret = 0

C7_Witness ==
    /\ gen_pc = "call"
    /\ gen_args.qr_version = 10
    /\ gen_args.url = NULL
    /\ max_ret = 271

(* C8 as stated: with a URL of u >= 1 bytes, a payload of at most          *)
(* qr_max_data_size(v, u) bytes never makes qr_generate fail on capacity,  *)
(* and the function returns 0 when u + 5 >= D(v).  (Only calls for which   *)
(* the function reported a positive capacity are held against the claim.)  *)
C8_Original ==
    /\ (/\ gen_pc = "done"
        /\ gen_args.url # NULL
        /\ strlen(gen_args.url) >= 1
        /\ ValidVersion(gen_args.qr_version)
        /\ gen_args.data_size >= 4071
        /\ gen_args.tmp_size >= 3706
        /\ max_ret > 0
        /\ gen_args.data_len <= max_ret)
       => gen_ret # 0
    /\ (/\ gen_pc # "query"
        /\ gen_args.url # NULL
        /\ strlen(gen_args.url) >= 1
        /\ ValidVersion(gen_args.qr_version)
        /\ strlen(gen_args.url) + 5 >= D(gen_args.qr_version))
       => max_ret = 0

(* C9 as stated: D(20) = 485 and qr_max_data_size(20, 0) = 482.            *)
C9_Original ==
    (gen_pc # "query" /\ gen_args.qr_version = 20 /\ gen_args.url = NULL)
    => (qr_version_max_data(20) = 485 /\ max_ret = 482)

(* C9 amended: version 20 has D(20) = 3*107 + 5*108 = 861 data codewords   *)
(* and the byte-mode capacity qr_max_data_size(20, 0) is 858.              *)
C9_Version20Capacity ==
    (gen_pc # "query" /\ gen_args.qr_version = 20 /\ gen_args.url = NULL)
    => (qr_version_max_data(20) = 861 /\ max_ret = 858)

C9_Witness ==
    /\ gen_pc = "call"
    /\ gen_args.qr_version = 20
    /\ gen_args.url = NULL
    /\ max_ret = 858

(***************************************************************************)
(* The driver: payload fitter and driver loop.                             *)
(***************************************************************************)
QR_COMPRESSION_MAGIC == 1515410500

QR_COMPRESSION_HEADER_SIZE == 8

QR_SKIP_SIZE == 1024

QRCON_RECENT_ONLY_SIZE == 8096

(***************************************************************************)
(* The compressor.  ZSTD is an external library; what the driver sees of   *)
(* it is the size it returns, or an error, for a source range.  The record *)
(* zstd describes the log contents as the compressor sees them:            *)
(*   poison_end : compressing a range that starts before this offset fails *)
(*   overhead   : fixed size of a frame                                    *)
(*   ratio      : bytes of source per byte of output below the tier        *)
(*   tier, tier_ratio : from tier source bytes on (if tier > 0) the        *)
(*                compressor switches parameters and the ratio changes     *)
(* A call whose output would exceed dstCapacity returns an error.          *)
(***************************************************************************)
ZSTD_Error == [err |-> TRUE, size |-> 0]

ZSTD_isError(r) == r.err

ZstdSize(z, srcSize) ==
    z.overhead
    + (IF z.tier > 0 /\ srcSize >= z.tier
       THEN (srcSize + z.tier_ratio - 1) \div z.tier_ratio
       ELSE (srcSize + z.ratio - 1) \div z.ratio)

ZSTD_compressCCtx(z, src, srcSize, dstCapacity) ==
    IF src < z.poison_end THEN ZSTD_Error
    ELSE IF ZstdSize(z, srcSize) > dstCapacity THEN ZSTD_Error
    ELSE [err |-> FALSE, size |-> ZstdSize(z, srcSize)]

(* The final pass repeats a compression made during the search; the code   *)
(* provides for its result to differ from the one recorded.                *)
Deviations == {"same", "error", "smaller", "larger"}

ZSTD_compressAgain(z, src, srcSize, dstCapacity, dev) ==
    LET r == ZSTD_compressCCtx(z, src, srcSize, dstCapacity) IN
    IF dev = "same" \/ r.err THEN r
    ELSE IF dev = "error" THEN ZSTD_Error
    ELSE IF dev = "smaller"
    THEN (IF r.size > 1 THEN [err |-> FALSE, size |-> r.size - 1] ELSE r)
    ELSE (IF r.size + 1 > dstCapacity THEN ZSTD_Error
          ELSE [err |-> FALSE, size |-> r.size + 1])

(***************************************************************************)
(* The destination buffer of the fitter, as far as its contents matter:    *)
(*   header     : << magic, uncompressed length >> once written, << >>     *)
(*                while the first 8 bytes hold something else              *)
(*   payload_at : offset at which the compressor last wrote                *)
(*   payload    : << src, len, size >>: the bytes from payload_at are the  *)
(*                size-byte compression of src[src .. src+len), or << >>   *)
(*                after a failed compression                               *)
(***************************************************************************)
WorkBuf == [kind |-> "work", header |-> << >>, payload_at |-> 0,
            payload |-> << >>]

(* variant: the compressor output placed at the start of the buffer *)
StoreCompressed_from_start(buf, off, desc) ==
    [kind |-> "work", header |-> << >>, payload_at |-> 0, payload |-> desc]

StoreCompressed(buf, off, desc) ==
    [kind |-> "work",
     header |-> IF off < QR_COMPRESSION_HEADER_SIZE THEN << >> ELSE buf.header,
     payload_at |-> off,
     payload |-> desc]

StoreHeader(buf, magic, len) ==
    [kind |-> "work",
     header |-> << magic, len >>,
     payload_at |-> buf.payload_at,
     payload |-> IF buf.payload_at < QR_COMPRESSION_HEADER_SIZE
                 THEN << >> ELSE buf.payload]

Compressed(src, len, r) == IF r.err THEN << >> ELSE << src, len, r.size >>

(***************************************************************************)
(* The binary search of qrcon_compress_data (the while loop).  st carries  *)
(* low, high, best_size, best_compressed_payload, the destination buffer   *)
(* and the number of compressions made.  SearchProbe is one pass through   *)
(* the loop body for the midpoint mid.                                     *)
(***************************************************************************)
(* variant: after a result that is too big, two lengths are given up *)
SearchProbe_gives_up_two(z, src, target_capacity, dst_payload_capacity, st, mid) ==
    LET r   == ZSTD_compressCCtx(z, src, mid, dst_payload_capacity)
        dst == StoreCompressed(st.dst, QR_COMPRESSION_HEADER_SIZE,
                               Compressed(src, mid, r))
    IN IF ZSTD_isError(r)
       THEN [st EXCEPT !.high = mid - 2, !.dst = dst, !.probes = @ + 1]
       ELSE IF QR_COMPRESSION_HEADER_SIZE + r.size <= target_capacity
       THEN [st EXCEPT !.low = mid + 1, !.best_size = mid,
                       !.best_compressed_payload = r.size,
                       !.dst = dst, !.probes = @ + 1]
       ELSE [st EXCEPT !.high = mid - 2, !.dst = dst, !.probes = @ + 1]

SearchProbe(z, src, target_capacity, dst_payload_capacity, st, mid) ==
    LET r   == ZSTD_compressCCtx(z, src, mid, dst_payload_capacity)
        dst == StoreCompressed(st.dst, QR_COMPRESSION_HEADER_SIZE,
                               Compressed(src, mid, r))
    IN IF ZSTD_isError(r)
       THEN [st EXCEPT !.high = mid - 1, !.dst = dst, !.probes = @ + 1]
       ELSE IF QR_COMPRESSION_HEADER_SIZE + r.size <= target_capacity
       THEN [st EXCEPT !.low = mid + 1, !.best_size = mid,
                       !.best_compressed_payload = r.size,
                       !.dst = dst, !.probes = @ + 1]
       ELSE [st EXCEPT !.high = mid - 1, !.dst = dst, !.probes = @ + 1]

(* the state after a pass is bound as a value, so that it is computed once *)
RECURSIVE BinarySearch(_, _, _, _, _)
BinarySearch(z, src, target_capacity, dst_payload_capacity, st) ==
    IF ~(st.low <= st.high) THEN st
    ELSE LET mid == st.low + (st.high - st.low) \div 2 IN
         IF mid = 0 THEN st
         ELSE CHOOSE res \in
                { BinarySearch(z, src, target_capacity, dst_payload_capacity,
                               nxt) :
                    nxt \in { SearchProbe(z, src, target_capacity,
                                          dst_payload_capacity, st, mid) } } :
                TRUE

(***************************************************************************)
(* qrcon_compress_data(src, src_size, dst, dst_capacity, &processed_size)  *)
(* for the configured version; dev is how the final compression turns out. *)
(* Returns [ret, processed_size, dst, probes].                             *)
(***************************************************************************)
FitterFailed(dst, probes) ==
    [ret |-> 0, processed_size |-> 0, dst |-> dst, probes |-> probes]

(* variant: the consumed length reported one short *)
FitterSucceeded_one_short(size, best_size, dst, probes) ==
    [ret |-> QR_COMPRESSION_HEADER_SIZE + size,
     processed_size |-> best_size - 1, dst |-> dst, probes |-> probes]

FitterSucceeded(size, best_size, dst, probes) ==
    [ret |-> QR_COMPRESSION_HEADER_SIZE + size,
     processed_size |-> best_size, dst |-> dst, probes |-> probes]

(* variant: a final size other than the recorded one is a failure *)
FinalPass_same_size_only(z, src, target_capacity, dst_payload_capacity, found, dev) ==
    IF found.best_size > 0
    THEN LET hdr == StoreHeader(found.dst, QR_COMPRESSION_MAGIC,
                                found.best_size)
             r   == ZSTD_compressAgain(z, src, found.best_size,
                                       dst_payload_capacity, dev)
             out == StoreCompressed(hdr, QR_COMPRESSION_HEADER_SIZE,
                                    Compressed(src, found.best_size, r))
         IN IF ZSTD_isError(r) THEN FitterFailed(out, found.probes)
            ELSE IF r.size # found.best_compressed_payload
            THEN FitterFailed(out, found.probes)
            ELSE FitterSucceeded(r.size, found.best_size, out, found.probes)
    ELSE FitterFailed(found.dst, found.probes)

(* the part of qrcon_compress_data after the search *)
FinalPass(z, src, target_capacity, dst_payload_capacity, found, dev) ==
    IF found.best_size > 0
    THEN LET hdr == StoreHeader(found.dst, QR_COMPRESSION_MAGIC,
                                found.best_size)
             r   == ZSTD_compressAgain(z, src, found.best_size,
                                       dst_payload_capacity, dev)
             out == StoreCompressed(hdr, QR_COMPRESSION_HEADER_SIZE,
                                    Compressed(src, found.best_size, r))
         IN IF ZSTD_isError(r) THEN FitterFailed(out, found.probes)
            ELSE IF r.size # found.best_compressed_payload
                    /\ QR_COMPRESSION_HEADER_SIZE + r.size > target_capacity
            THEN FitterFailed(out, found.probes)
            ELSE FitterSucceeded(r.size, found.best_size, out, found.probes)
    ELSE FitterFailed(found.dst, found.probes)

qrcon_compress_data(z, version, src, src_size, dst, dst_capacity, dev) ==
    IF version < 1 \/ version > 40 THEN FitterFailed(dst, 0)
    ELSE IF qr_max_data_size(version, 0) = 0 THEN FitterFailed(dst, 0)
    ELSE LET target_capacity == Min(qr_max_data_size(version, 0), dst_capacity)
         IN
         IF target_capacity <= QR_COMPRESSION_HEADER_SIZE
         THEN FitterFailed(dst, 0)
         ELSE
         LET dst_payload_capacity == target_capacity - QR_COMPRESSION_HEADER_SIZE
         IN CHOOSE res \in
              { FinalPass(z, src, tc, tc - QR_COMPRESSION_HEADER_SIZE, found,
                          dev) :
                  << tc, found >> \in
                    { << target_capacity,
                         BinarySearch(z, src, target_capacity,
                                      dst_payload_capacity,
                                      [low |-> 1, high |-> src_size,
                                       best_size |-> 0,
                                       best_compressed_payload |-> 0,
                                       dst |-> dst, probes |-> 0]) >> } } :
              TRUE

(***************************************************************************)
(* qrcon_render_qr, as far as the payload/image buffer is concerned (the   *)
(* framebuffer is taken to be mapped): an empty payload is not rendered;   *)
(* otherwise qr_generate turns the payload in the buffer into the bitmap.  *)
(* Returns [qr_width, buf, drawn].                                         *)
(***************************************************************************)
qrcon_render_qr(buf, payload_len, version, width) ==
    IF payload_len = 0 THEN [qr_width |-> width, buf |-> buf, drawn |-> FALSE]
    ELSE LET g == qr_generate(NULL, payload_len, version % 256,
                              QR_PAYLOAD_AND_IMAGE_BUF_SIZE,
                              QR_TMP_WORKSPACE_SIZE)
         IN IF g.ret = 0
            THEN [qr_width |-> 0, buf |-> buf, drawn |-> FALSE]
            ELSE [qr_width |-> g.ret,
                  buf |-> [kind |-> "image", frame |-> buf],
                  drawn |-> TRUE]

(***************************************************************************)
(* Bounds and inputs of the driver specification.                          *)
(***************************************************************************)
(* log lengths 0..MaxSmallLen, and up to MaxExtraLen bytes around the skip *)
(* size and over the recent-only size                                      *)
MaxSmallLen == 12

MaxExtraLen == 2

(* the long logs are run with the versions whose symbols hold hundreds of  *)
(* bytes; with versions 1 and 2 a short log already takes several symbols  *)
HistoryLens(version) ==
    (0..MaxSmallLen)
    \cup IF version \in {1, 2} THEN {}
         ELSE { QR_SKIP_SIZE + d : d \in (0 - 1)..MaxExtraLen }
              \cup { 2 * QR_SKIP_SIZE + d : d \in 0..MaxExtraLen }
              \cup { QRCON_RECENT_ONLY_SIZE + d : d \in 0..MaxExtraLen }

DriverVersions == {0, 1, 2, 20, 41}

ZstdProfiles ==
    { [poison_end |-> p, overhead |-> o, ratio |-> s[1], tier |-> s[2],
       tier_ratio |-> s[3]] :
        p \in {0, 2, QR_SKIP_SIZE + 1},
        o \in {1, 7, 9},
        s \in { << 1, 0, 1 >>, << 16, 0, 16 >>, << 1, 12, 256 >> } }

DrvInit ==
    /\ qr_version \in DriverVersions
    /\ recent_only \in {0, 1}
    /\ zstd \in ZstdProfiles
    /\ kmsg_history_len \in HistoryLens(qr_version)
    /\ kmsg_history_pos = 0
    /\ qr_payload_and_image_buf = EmptyBuf
    /\ qr_payload_len = 0
    /\ qr_width = 0
    /\ compressed_size = 0
    /\ processed_src = 0
    /\ drv_pc = "entry"
    /\ entry_len = 0
    /\ start_pos = 0
    /\ iterations = 0
    /\ last_event = NoEvent
    /\ cover_to = 0
    /\ GenParked
    /\ RsParked
    /\ ItParked
    /\ NumParked
    /\ FitParked
    /\ EncParked
    /\ ImgParked
    /\ PnParked

(***************************************************************************)
(* qrcon_process_history up to its while loop: the early returns and the   *)
(* choice of the start cursor.                                             *)
(***************************************************************************)
ProcessHistoryEntry ==
    /\ drv_pc = "entry"
    /\ IF kmsg_history_len = 0
       THEN /\ drv_pc' = "done"
            /\ UNCHANGED << kmsg_history_len, kmsg_history_pos, entry_len,
                            start_pos, cover_to >>
       ELSE IF qr_version < 1 \/ qr_version > 40
               \/ qr_max_data_size(qr_version % 256, 0) = 0
       THEN /\ kmsg_history_len' = 0
            /\ kmsg_history_pos' = 0
            /\ drv_pc' = "done"
            /\ UNCHANGED << entry_len, start_pos, cover_to >>
       ELSE /\ kmsg_history_pos' =
                 IF recent_only # 0 /\ kmsg_history_len > QRCON_RECENT_ONLY_SIZE
                 THEN (IF kmsg_history_len - QRCON_RECENT_ONLY_SIZE
                            >= kmsg_history_len
                       THEN 0
                       ELSE kmsg_history_len - QRCON_RECENT_ONLY_SIZE)
                 ELSE 0
            /\ entry_len' = kmsg_history_len
            /\ start_pos' = kmsg_history_pos'
            /\ cover_to' = kmsg_history_pos'
            /\ drv_pc' = "loop"
            /\ UNCHANGED kmsg_history_len
    /\ UNCHANGED << qr_version, recent_only, zstd, qr_payload_and_image_buf,
                    qr_payload_len, qr_width, compressed_size, processed_src,
                    iterations, last_event >>
    /\ UNCHANGED gen_vars
    /\ UNCHANGED rs_vars
    /\ UNCHANGED it_vars
    /\ UNCHANGED num_vars
    /\ UNCHANGED fit_vars
    /\ UNCHANGED enc_vars
    /\ UNCHANGED img_vars
    /\ UNCHANGED pn_vars

(* loop body, first half: the fitter is called on the remaining bytes *)
CompressData ==
    /\ drv_pc = "loop"
    /\ kmsg_history_pos < kmsg_history_len
    /\ \E dev \in Deviations :
         LET remaining == kmsg_history_len - kmsg_history_pos IN
         \E r \in { qrcon_compress_data(zstd, qr_version, kmsg_history_pos,
                                        remaining, WorkBuf,
                                        QR_PAYLOAD_AND_IMAGE_BUF_SIZE, dev) } :
            /\ compressed_size' = r.ret
            /\ processed_src' = r.processed_size
            /\ qr_payload_and_image_buf' = r.dst
    /\ drv_pc' = "fitted"
    /\ UNCHANGED << qr_version, recent_only, zstd, kmsg_history_len,
                    kmsg_history_pos, qr_payload_len, qr_width, entry_len,
                    start_pos, iterations, last_event, cover_to >>
    /\ UNCHANGED gen_vars
    /\ UNCHANGED rs_vars
    /\ UNCHANGED it_vars
    /\ UNCHANGED num_vars
    /\ UNCHANGED fit_vars
    /\ UNCHANGED enc_vars
    /\ UNCHANGED img_vars
    /\ UNCHANGED pn_vars

(* variant: always the full skip size *)
skip_amount_fixed(remaining) == QR_SKIP_SIZE

skip_amount(remaining) ==
    IF remaining < QR_SKIP_SIZE THEN remaining ELSE QR_SKIP_SIZE

(* loop body after a failed fit: skip and retry *)
SkipAfterFailure ==
    /\ drv_pc = "fitted"
    /\ compressed_size = 0
    /\ LET remaining == kmsg_history_len - kmsg_history_pos
       IN /\ kmsg_history_pos' = kmsg_history_pos + skip_amount(remaining)
          /\ last_event' = [kind |-> "skip", pos |-> kmsg_history_pos,
                            len |-> skip_amount(remaining)]
          /\ cover_to' = kmsg_history_pos + skip_amount(remaining)
    /\ iterations' = iterations + 1
    /\ drv_pc' = "loop"
    /\ UNCHANGED << qr_version, recent_only, zstd, kmsg_history_len,
                    qr_payload_and_image_buf, qr_payload_len, qr_width,
                    compressed_size, processed_src, entry_len, start_pos >>
    /\ UNCHANGED gen_vars
    /\ UNCHANGED rs_vars
    /\ UNCHANGED it_vars
    /\ UNCHANGED num_vars
    /\ UNCHANGED fit_vars
    /\ UNCHANGED enc_vars
    /\ UNCHANGED img_vars
    /\ UNCHANGED pn_vars

(* loop body after a successful fit: render the frame, advance the cursor  *)
(* by the consumed length (the delay that follows changes no state)        *)
RenderAndAdvance ==
    /\ drv_pc = "fitted"
    /\ compressed_size # 0
    /\ qr_payload_len' = compressed_size
    /\ \E q \in { qrcon_render_qr(qr_payload_and_image_buf, compressed_size,
                                   qr_version, qr_width) } :
       LET frame == qr_payload_and_image_buf
       IN /\ qr_width' = q.qr_width
          /\ qr_payload_and_image_buf' = q.buf
          /\ last_event' =
               IF q.drawn /\ frame.payload # << >> /\ frame.header # << >>
               THEN [kind |-> "qr", pos |-> frame.payload[1],
                     len |-> frame.header[2]]
               ELSE [kind |-> "lost", pos |-> kmsg_history_pos,
                     len |-> processed_src]
          /\ cover_to' = last_event'.pos + last_event'.len
    /\ kmsg_history_pos' = kmsg_history_pos + processed_src
    /\ iterations' = iterations + 1
    /\ drv_pc' = "loop"
    /\ UNCHANGED << qr_version, recent_only, zstd, kmsg_history_len,
                    compressed_size, processed_src, entry_len, start_pos >>
    /\ UNCHANGED gen_vars
    /\ UNCHANGED rs_vars
    /\ UNCHANGED it_vars
    /\ UNCHANGED num_vars
    /\ UNCHANGED fit_vars
    /\ UNCHANGED enc_vars
    /\ UNCHANGED img_vars
    /\ UNCHANGED pn_vars

(* the loop condition fails: reset the history state and return *)
ProcessHistoryExit ==
    /\ drv_pc = "loop"
    /\ ~(kmsg_history_pos < kmsg_history_len)
    /\ kmsg_history_len' = 0
    /\ kmsg_history_pos' = 0
    /\ qr_payload_len' = 0
    /\ drv_pc' = "done"
    /\ UNCHANGED << qr_version, recent_only, zstd, qr_payload_and_image_buf,
                    qr_width, compressed_size, processed_src, entry_len,
                    start_pos, iterations, last_event, cover_to >>
    /\ UNCHANGED gen_vars
    /\ UNCHANGED rs_vars
    /\ UNCHANGED it_vars
    /\ UNCHANGED num_vars
    /\ UNCHANGED fit_vars
    /\ UNCHANGED enc_vars
    /\ UNCHANGED img_vars
    /\ UNCHANGED pn_vars

Next ==
    \/ ProcessHistoryEntry
    \/ CompressData
    \/ SkipAfterFailure
    \/ RenderAndAdvance
    \/ ProcessHistoryExit

Spec == DrvInit /\ [][Next]_vars

(* the driver runs without interruption: a pending step is taken *)
FairSpec == Spec /\ WF_vars(Next)

(***************************************************************************)
(* Properties of the driver loop and of the fitter.                        *)
(***************************************************************************)
(* C1: every iteration of the driver loop strictly increases the read      *)
(* cursor, by the consumed length k >= 1 after a successful fit and by     *)
(* min(1024, L - pos) >= 1 after a failed one; the loop makes at most L    *)
(* iterations and terminates.                                              *)
C1_IterationAdvances ==
    drv_pc = "fitted" /\ drv_pc' = "loop" =>
        /\ kmsg_history_pos' > kmsg_history_pos
        /\ kmsg_history_len' = kmsg_history_len
        /\ iterations' = iterations + 1
        /\ compressed_size # 0 =>
             /\ processed_src >= 1
             /\ kmsg_history_pos' = kmsg_history_pos + processed_src
        /\ compressed_size = 0 =>
             /\ Min(QR_SKIP_SIZE, kmsg_history_len - kmsg_history_pos) >= 1
             /\ kmsg_history_pos' = kmsg_history_pos
                  + Min(QR_SKIP_SIZE, kmsg_history_len - kmsg_history_pos)

C1_LoopTerminates ==
    /\ [][C1_IterationAdvances]_vars
    /\ [](iterations <= entry_len)
    /\ <>(drv_pc = "done")

(* a log of several bytes has been emitted one byte per symbol, in as many *)
(* iterations as the log has bytes                                         *)
C1_Witness ==
    /\ drv_pc = "done"
    /\ entry_len >= 2
    /\ iterations = entry_len
    /\ last_event.kind = "qr"

(* C(v), the capacity the fitter works with *)
C(v) == Min(qr_max_data_size(v, 0), QR_PAYLOAD_AND_IMAGE_BUF_SIZE)

(* the frame for the first k bytes at src is produced and is within C(v) *)
FrameFits(z, v, src, k) ==
    LET r == ZSTD_compressCCtx(z, src, k, C(v) - QR_COMPRESSION_HEADER_SIZE)
    IN ~ZSTD_isError(r) /\ QR_COMPRESSION_HEADER_SIZE + r.size <= C(v)

(* C2: when the fitter succeeds, the consumed length it reports is the     *)
(* largest k in 1..n whose frame (8-byte header and the compression of the *)
(* first k bytes) is within C(v).                                          *)
C2_Original ==
    drv_pc = "fitted" /\ compressed_size # 0 =>
        /\ processed_src \in 1..(kmsg_history_len - kmsg_history_pos)
        /\ FrameFits(zstd, qr_version, kmsg_history_pos, processed_src)
        /\ \A k \in (processed_src + 1)..(kmsg_history_len - kmsg_history_pos) :
             ~FrameFits(zstd, qr_version, kmsg_history_pos, k)

(* C3: each emitted range starts where the previously consumed or skipped  *)
(* range ended (the start cursor for the first), is not empty and ends     *)
(* within the log; the cursor is the end of the ranges so far, and when    *)
(* the loop is left the ranges reach the end of the log.                   *)
C3_NextRangeAdjoins ==
    drv_pc = "fitted" /\ drv_pc' = "loop" =>
        /\ last_event'.kind = IF compressed_size # 0 THEN "qr" ELSE "skip"
        /\ last_event'.pos = cover_to
        /\ last_event'.len >= 1
        /\ last_event'.pos + last_event'.len <= kmsg_history_len
        /\ cover_to' = kmsg_history_pos'

C4_FrameLayout ==
    drv_pc = "fitted" /\ compressed_size # 0 =>
        /\ qr_payload_and_image_buf.kind = "work"
        /\ qr_payload_and_image_buf.header
             = << QR_COMPRESSION_MAGIC, processed_src >>
        /\ qr_payload_and_image_buf.payload_at = QR_COMPRESSION_HEADER_SIZE
        /\ qr_payload_and_image_buf.payload
             = << kmsg_history_pos, processed_src,
                  compressed_size - QR_COMPRESSION_HEADER_SIZE >>
        /\ processed_src >= 1

(* a frame of more than one source byte, begun past the start of the log   *)
C4_Witness ==
    /\ drv_pc = "fitted"
    /\ compressed_size > QR_COMPRESSION_HEADER_SIZE
    /\ kmsg_history_pos > 0
    /\ processed_src > 1
    /\ qr_payload_and_image_buf.header
         = << QR_COMPRESSION_MAGIC, processed_src >>

(***************************************************************************)
(* Error correction: encoded_msg_compute_error_code and                    *)
(* encoded_msg_error_code_for_block.                                       *)
(***************************************************************************)
PADDING == << 236, 17 >>

(* bitwise exclusive or of two bytes, tabulated once *)
XorBits(a, b) ==
      ((a + b) % 2)
    + 2 * (((a \div 2) + (b \div 2)) % 2)
    + 4 * (((a \div 4) + (b \div 4)) % 2)
    + 8 * (((a \div 8) + (b \div 8)) % 2)
    + 16 * (((a \div 16) + (b \div 16)) % 2)
    + 32 * (((a \div 32) + (b \div 32)) % 2)
    + 64 * (((a \div 64) + (b \div 64)) % 2)
    + 128 * (((a \div 128) + (b \div 128)) % 2)

XorTable ==
    SubSeq([a \in 1..256 |->
              SubSeq([b \in 1..256 |-> XorBits(a - 1, b - 1)], 1, 256)],
           1, 256)

Xor(a, b) == XorTable[a + 1][b + 1]

(* Byte k of the payload of the byte segment, by pattern. *)
PayloadByte(pattern, k) ==
    IF pattern = "zeros" THEN 0 ELSE (7 * k * k + 31 * k + 5) % 256

(***************************************************************************)
(* Byte i of the data region as encoded_msg_add_segments leaves it for one *)
(* byte segment of n bytes (n within the capacity of the version): mode    *)
(* indicator, length field of 8 or 16 bits, the payload, the terminator,   *)
(* then the padding bytes from pad_offset on.  The header ends in the      *)
(* middle of a byte, so every byte holds the low half of one payload byte  *)
(* and the high half of the next.                                          *)
(***************************************************************************)
DataByte(version, input, i) ==
    LET n          == input[1]
        len_bits   == qr_segment_length_bits_count(
                          [type |-> SEGMENT_BINARY, length |-> n], version)
        hb         == len_bits \div 8
        pad_offset == hb + n + 1
        k          == i - hb
    IN IF i = 0
       THEN MODE_BINARY * 16 + ((IF len_bits = 8 THEN n \div 16
                                 ELSE n \div 4096) % 16)
       ELSE IF i < hb THEN (n \div 16) % 256
       ELSE IF i < pad_offset
       THEN 16 * (IF k = 0 THEN n % 16
                  ELSE PayloadByte(input[2], k - 1) % 16)
            + (IF k < n THEN PayloadByte(input[2], k) \div 16 ELSE MODE_STOP)
       ELSE PADDING[(((i % 2) + (pad_offset % 2)) % 2) + 1]

(* variant: exponent reduced modulo 256 *)
gf_term_mod_256(p, log_lead_coeff) ==
    EXP_TABLE[((p + log_lead_coeff) % 256) + 1]

(* EXP_TABLE[(em->poly[j] + log_lead_coeff) % 255] *)
gf_term(p, log_lead_coeff) ==
    EXP_TABLE[((p + log_lead_coeff) % 255) + 1]

(***************************************************************************)
(* encoded_msg_error_code_for_block works in place on tmp, the block       *)
(* followed by zeros.  Pass i of its outer loop reads tmp[i] and changes   *)
(* tmp[i+1 .. i+ec_size] only, so the model carries those cells:           *)
(* win = << tmp[i], ..., tmp[i + ec_size] >>.  ReduceAt is pass i: the     *)
(* inner loop over j, after which the window moves on by one cell and      *)
(* takes in tmp[i + 1 + ec_size], still a byte of the block or a zero.     *)
(***************************************************************************)
ReduceAt(win, incoming, poly, ec_size) ==
    LET lead_coeff == win[1] IN
    IF lead_coeff = 0 THEN Append(Tail(win), incoming)
    ELSE LET log_lead_coeff == LOG_TABLE[lead_coeff + 1] IN
         Append([j \in 1..ec_size |->
                   Xor(win[j + 1], gf_term(poly[j], log_lead_coeff))],
                incoming)

(* The passes lo .. hi - 1 of the outer loop, in order.  The range is     *)
(* halved to keep the evaluation shallow, and the window between the two  *)
(* halves is bound as a value, so that it is computed once.               *)
RECURSIVE ReduceFrom(_, _, _, _, _, _, _, _)
ReduceFrom(win, lo, hi, version, input, offset, size, ec_size) ==
    IF lo >= hi THEN win
    ELSE IF hi = lo + 1
    THEN ReduceAt(win,
                  IF lo + 1 + ec_size < size
                  THEN DataByte(version, input, offset + lo + 1 + ec_size)
                  ELSE 0,
                  qr_version_poly(version), ec_size)
    ELSE CHOOSE res \in
           { ReduceFrom(half, mid, hi, version, input, offset, size, ec_size) :
               << half, mid >> \in
                 { << ReduceFrom(win, lo, (lo + hi) \div 2, version, input,
                                 offset, size, ec_size),
                      (lo + hi) \div 2 >> } } : TRUE

(* encoded_msg_error_code_for_block: the ec_size bytes it stores at        *)
(* ec_offset for the block of size bytes at offset.                        *)
encoded_msg_error_code_for_block(version, input, offset, size) ==
    LET ec_size == qr_version_ec_size(version)
        win0 == SubSeq([k \in 1..(ec_size + 1) |->
                          IF k <= size
                          THEN DataByte(version, input, offset + k - 1)
                          ELSE 0],
                       1, ec_size + 1)
    IN CHOOSE ec \in
         { SubSeq(win, 1, ec_size) :
             win \in { ReduceFrom(win0, 0, size, version, input, offset,
                                  size, ec_size) } } : TRUE

(***************************************************************************)
(* The pass over the blocks, one block per step.                           *)
(***************************************************************************)
(* byte segments run through the encoder: empty and of full capacity *)
EncInputs(version) ==
    { << 0, "zeros" >>,
      << qr_max_data_size(version, 0), "zeros" >>,
      << qr_max_data_size(version, 0), "mixed" >> }

RsInit ==
    /\ em_version \in 1..40
    /\ em_input \in EncInputs(em_version)
    /\ em_ec = << >>
    /\ rs_pc = "g1"
    /\ rs_i = 0
    /\ rs_offset = 0
    /\ rs_ec_offset = qr_version_g1_blocks(em_version)
                          * qr_version_g1_blk_size(em_version)
                      + qr_version_g2_blocks(em_version)
                          * (qr_version_g1_blk_size(em_version) + 1)
    /\ GenParked
    /\ DrvParked
    /\ ItParked
    /\ NumParked
    /\ FitParked
    /\ EncParked
    /\ ImgParked
    /\ PnParked

(* the block of blk_size bytes at rs_offset is encoded, the cursors move on *)
EncodeBlock(blk_size) ==
    /\ em_ec' = Append(em_ec,
                  [at |-> rs_ec_offset,
                   bytes |-> encoded_msg_error_code_for_block(
                                 em_version, em_input, rs_offset, blk_size)])
    /\ rs_offset' = rs_offset + blk_size
    /\ rs_ec_offset' = rs_ec_offset + qr_version_ec_size(em_version)
    /\ rs_i' = rs_i + 1

ErrorCodeGroup1 ==
    /\ rs_pc = "g1"
    /\ rs_i < qr_version_g1_blocks(em_version)
    /\ EncodeBlock(qr_version_g1_blk_size(em_version))
    /\ UNCHANGED << em_version, em_input, rs_pc >>
    /\ UNCHANGED << gen_vars, drv_vars >>
    /\ UNCHANGED it_vars
    /\ UNCHANGED num_vars
    /\ UNCHANGED fit_vars
    /\ UNCHANGED enc_vars
    /\ UNCHANGED img_vars
    /\ UNCHANGED pn_vars

Group1Done ==
    /\ rs_pc = "g1"
    /\ ~(rs_i < qr_version_g1_blocks(em_version))
    /\ rs_pc' = "g2"
    /\ rs_i' = 0
    /\ UNCHANGED << em_version, em_input, em_ec, rs_offset, rs_ec_offset >>
    /\ UNCHANGED << gen_vars, drv_vars >>
    /\ UNCHANGED it_vars
    /\ UNCHANGED num_vars
    /\ UNCHANGED fit_vars
    /\ UNCHANGED enc_vars
    /\ UNCHANGED img_vars
    /\ UNCHANGED pn_vars

ErrorCodeGroup2 ==
    /\ rs_pc = "g2"
    /\ rs_i < qr_version_g2_blocks(em_version)
    /\ EncodeBlock(qr_version_g1_blk_size(em_version) + 1)
    /\ UNCHANGED << em_version, em_input, rs_pc >>
    /\ UNCHANGED << gen_vars, drv_vars >>
    /\ UNCHANGED it_vars
    /\ UNCHANGED num_vars
    /\ UNCHANGED fit_vars
    /\ UNCHANGED enc_vars
    /\ UNCHANGED img_vars
    /\ UNCHANGED pn_vars

Group2Done ==
    /\ rs_pc = "g2"
    /\ ~(rs_i < qr_version_g2_blocks(em_version))
    /\ rs_pc' = "done"
    /\ UNCHANGED << em_version, em_input, em_ec, rs_i, rs_offset,
                    rs_ec_offset >>
    /\ UNCHANGED << gen_vars, drv_vars >>
    /\ UNCHANGED it_vars
    /\ UNCHANGED num_vars
    /\ UNCHANGED fit_vars
    /\ UNCHANGED enc_vars
    /\ UNCHANGED img_vars
    /\ UNCHANGED pn_vars

RsNext == ErrorCodeGroup1 \/ Group1Done \/ ErrorCodeGroup2 \/ Group2Done

SpecRS == RsInit /\ [][RsNext]_vars

(***************************************************************************)
(* Reference Reed-Solomon encoder over GF(256), built from the field       *)
(* polynomial x^8 + x^4 + x^3 + x^2 + 1 (0x11D) alone: the generator of    *)
(* degree e is the product of (x - a^i) for i = 0 .. e-1 with a = 2, and   *)
(* the parity of a block is the remainder of block * x^e by it.            *)
(***************************************************************************)
(* x times a: a shift, reduced by 0x11D = 256 + 29 when it leaves the byte *)
RefTimesAlpha(x) == IF 2 * x >= 256 THEN Xor(2 * x - 256, 29) ELSE 2 * x

(* product in the field by shift and add *)
RECURSIVE RefMulShiftAdd(_, _)
RefMulShiftAdd(x, y) ==
    IF y = 0 THEN 0
    ELSE Xor(IF y % 2 = 1 THEN x ELSE 0,
             RefMulShiftAdd(RefTimesAlpha(x), y \div 2))

RECURSIVE RefPow(_)
RefPow(i) ==
    IF i = 0 THEN 1
    ELSE IF i % 2 = 1 THEN RefTimesAlpha(RefPow(i - 1))
    ELSE CHOOSE sq \in { RefMulShiftAdd(h, h) : h \in { RefPow(i \div 2) } } :
           TRUE

(* a^i for i = 0 .. 254 (element i + 1), and the exponent of each nonzero  *)
(* byte; tabulated once                                                    *)
RefExp == SubSeq([i \in 1..255 |-> RefPow(i - 1)], 1, 255)

RefLog ==
    SubSeq([x \in 1..255 |-> CHOOSE i \in 0..254 : RefExp[i + 1] = x], 1, 255)

RefMul(x, y) ==
    IF x = 0 \/ y = 0 THEN 0
    ELSE RefExp[((RefLog[x] + RefLog[y]) % 255) + 1]

(* coefficients of the generator of degree e, from x^e down to x^0 *)
RECURSIVE RefGenerator(_)
RefGenerator(e) ==
    IF e = 0 THEN << 1 >>
    ELSE CHOOSE h \in
           { SubSeq([k \in 1..(e + 1) |->
                       Xor(IF k <= e THEN g[k] ELSE 0,
                           IF k >= 2 THEN RefMul(g[k - 1], RefExp[e]) ELSE 0)],
                    1, e + 1) :
               g \in { RefGenerator(e - 1) } } : TRUE

RefGenerators == SubSeq([e \in 1..MAX_EC_SIZE |-> RefGenerator(e)],
                        1, MAX_EC_SIZE)

(* long division, one data byte d at a time; rem has e bytes *)
RefDivideStep(rem, d, g, e) ==
    LET f == Xor(d, rem[1]) IN
    SubSeq([j \in 1..e |->
              Xor(IF j < e THEN rem[j + 1] ELSE 0, RefMul(g[j + 1], f))],
           1, e)

RECURSIVE RefDivide(_, _, _, _, _, _, _)
RefDivide(rem, lo, hi, version, input, offset, e) ==
    IF lo >= hi THEN rem
    ELSE IF hi = lo + 1
    THEN RefDivideStep(rem, DataByte(version, input, offset + lo),
                       RefGenerators[e], e)
    ELSE CHOOSE res \in
           { RefDivide(half, mid, hi, version, input, offset, e) :
               << half, mid >> \in
                 { << RefDivide(rem, lo, (lo + hi) \div 2, version, input,
                                offset, e),
                      (lo + hi) \div 2 >> } } : TRUE

(* layout of block b (1, 2, ...) of a version: g1 blocks of s1 bytes, then *)
(* g2 blocks of s1 + 1 bytes, with parity of Len(poly) bytes               *)
RefBlockSize(v, b) ==
    IF b <= VPARAM[v].g1_blocks THEN VPARAM[v].g1_blk_size
    ELSE VPARAM[v].g1_blk_size + 1

RefBlockOffset(v, b) ==
    IF b <= VPARAM[v].g1_blocks THEN (b - 1) * VPARAM[v].g1_blk_size
    ELSE VPARAM[v].g1_blocks * VPARAM[v].g1_blk_size
         + (b - 1 - VPARAM[v].g1_blocks) * (VPARAM[v].g1_blk_size + 1)

RefParity(v, input, b) ==
    RefDivide([j \in 1..Len(VPARAM[v].poly) |-> 0], 0, RefBlockSize(v, b),
              v, input, RefBlockOffset(v, b), Len(VPARAM[v].poly))

(* C10: the parity bytes that encoding leaves after the D(v) data bytes,   *)
(* block after block (g1 blocks of s1 bytes, then g2 blocks of s1 + 1),    *)
(* equal the remainder computed by the reference Reed-Solomon encoder with *)
(* the generator of the degree VPARAM[v] selects.  Blocks are written once *)
(* and in order, so each is compared when it has just been written.        *)
C10_ParityMatchesReference ==
    /\ rs_pc \in {"g1", "g2", "done"} /\ Len(em_ec) > 0 =>
         /\ em_ec[Len(em_ec)].at
              = D(em_version)
                + (Len(em_ec) - 1) * Len(VPARAM[em_version].poly)
         /\ em_ec[Len(em_ec)].bytes
              = RefParity(em_version, em_input, Len(em_ec))
    /\ rs_pc = "done" =>
         Len(em_ec) = VPARAM[em_version].g1_blocks
                      + VPARAM[em_version].g2_blocks

(* version 40 with a full payload has had its 25 blocks encoded *)
C10_Witness ==
    /\ rs_pc = "done"
    /\ em_version = 40
    /\ em_input = << qr_max_data_size(40, 0), "mixed" >>
    /\ Len(em_ec) = 25
    /\ \E j \in 1..30 : em_ec[25].bytes[j] # 0

(***************************************************************************)
(* Order of the accesses of one qr_generate call.                          *)
(***************************************************************************)
(* C11: inside one call, every read of the input payload (the data buffer, *)
(* which also receives the bitmap) comes before the first write of the     *)
(* bitmap into that buffer; from that write on, the only buffer read is    *)
(* tmp, and the data buffer is only cleared and updated.                   *)
C11_PayloadReadBeforeBitmap ==
    gen_pc = "done" =>
        \A i \in WritesOf(gen_events) :
            gen_events[i].buf = "data" =>
                \A j \in (i + 1)..Len(gen_events) :
                    /\ gen_events[j].op = "read" => gen_events[j].buf = "tmp"
                    /\ gen_events[j].buf = "data"
                         => gen_events[j].op \in {"write", "update"}

(* a call that read a payload from the data buffer and then drew into it *)
C11_Witness ==
    /\ gen_pc = "done"
    /\ gen_ret # 0
    /\ gen_args.data_len > 0
    /\ \E i, j \in 1..Len(gen_events) :
         /\ i < j
         /\ gen_events[i] = Ev("read", "data", 0, gen_args.data_len)
         /\ gen_events[j].op = "write" /\ gen_events[j].buf = "data"
         /\ \E k \in (j + 1)..Len(gen_events) :
              gen_events[k].op = "read" /\ gen_events[k].buf = "tmp"

(***************************************************************************)
(* Which bytes of the buffers still hold what was there before the call.   *)
(* A stale range is << buf, lo, hi >>: bytes lo .. hi-1 of buf hold values *)
(* that are no function of the call's inputs.  On entry all of tmp is      *)
(* stale, and so is the data buffer from data_len on; the URL string and   *)
(* the first data_len bytes of data are inputs.  A store of computed       *)
(* values makes its range fresh, unless a stale byte was read before (then *)
(* what is computed is stale as well); an update keeps a stale byte stale. *)
(***************************************************************************)
StaleOnEntry(args) ==
    { r \in { << "tmp", 0, args.tmp_size >>,
              << "data", args.data_len, args.data_size >> } : r[2] < r[3] }

Overlaps(r, e) == r[1] = e.buf /\ r[2] < e.hi /\ e.lo < r[3]

(* what is left of the range r outside the bytes of the event e *)
Outside(r, e) ==
    IF ~Overlaps(r, e) THEN {r}
    ELSE { p \in { << r[1], r[2], Min(r[3], e.lo) >>,
                   << r[1], IF e.hi > r[2] THEN e.hi ELSE r[2], r[3] >> } :
           p[2] < p[3] }

StaleStep(st, e) ==
    LET hit == \E r \in st.stale : Overlaps(r, e)
    IN IF e.op = "read"
       THEN [stale |-> st.stale, leaked |-> st.leaked \/ hit]
       ELSE IF e.op = "write" /\ ~st.leaked
       THEN [stale |-> UNION { Outside(r, e) : r \in st.stale },
             leaked |-> st.leaked]
       ELSE IF st.leaked
       THEN [stale |-> st.stale \cup { << e.buf, e.lo, e.hi >> },
             leaked |-> st.leaked]
       ELSE st

RECURSIVE StaleAfter(_, _, _)
StaleAfter(events, i, st) ==
    IF i > Len(events) THEN st
    ELSE StaleAfter(events, i + 1, StaleStep(st, events[i]))

BitmapRange(version) ==
    Ev("read", "data", 0,
       qr_image_stride(version) * qr_version_width(version))

(* C12: the bitmap a successful call leaves in the first stride * W bytes  *)
(* of the data buffer is a function of the inputs (url, payload bytes,     *)
(* data_len, version) alone: no byte of it, and no byte the call read on   *)
(* the way, holds what tmp, or the data buffer from data_len on, contained *)
(* before the call.                                                        *)
C12_BitmapIgnoresStaleBytes ==
    (gen_pc = "done" /\ gen_ret # 0) =>
        LET st == StaleAfter(gen_events, 1,
                             [stale |-> StaleOnEntry(gen_args),
                              leaked |-> FALSE])
        IN /\ ~st.leaked
           /\ \A r \in st.stale :
                ~Overlaps(r, BitmapRange(gen_args.qr_version))

(* a drawn symbol whose payload is shorter than the bitmap, so that stale  *)
(* bytes of the data buffer lie where the bitmap is stored, with a numeric *)
(* segment read from the data buffer *)
C12_Witness ==
    /\ gen_pc = "done"
    /\ gen_ret # 0
    /\ gen_args.url # NULL
    /\ gen_args.data_len > 0
    /\ Overlaps(<< "data", gen_args.data_len, gen_args.data_size >>,
                BitmapRange(gen_args.qr_version))
    /\ \E i \in 1..Len(gen_events) :
         gen_events[i] = Ev("read", "data", 0, gen_args.data_len)

(***************************************************************************)
(* The walk of encoded_msg_iterator over an encoded message, as            *)
(* qr_image_draw_data runs it: one call of encoded_msg_iterator_next per   *)
(* step, until it returns false.                                           *)
(***************************************************************************)
(* encoded_msg_compute_error_code: the parity of every block, group 1      *)
(* first, each stored behind the previous one from g2_end on               *)
encoded_msg_compute_error_code(version, input) ==
    LET g1_blocks   == qr_version_g1_blocks(version)
        g2_blocks   == qr_version_g2_blocks(version)
        g1_blk_size == qr_version_g1_blk_size(version)
        g2_blk_size == g1_blk_size + 1
        ec_size     == qr_version_ec_size(version)
        g1_end      == g1_blocks * g1_blk_size
        g2_end      == g1_end + g2_blocks * g2_blk_size
    IN SubSeq([b \in 1..(g1_blocks + g2_blocks) |->
                 [at    |-> g2_end + (b - 1) * ec_size,
                  bytes |-> IF b <= g1_blocks
                            THEN encoded_msg_error_code_for_block(
                                     version, input,
                                     (b - 1) * g1_blk_size, g1_blk_size)
                            ELSE encoded_msg_error_code_for_block(
                                     version, input,
                                     g1_end + (b - 1 - g1_blocks) * g2_blk_size,
                                     g2_blk_size)]],
              1, g1_blocks + g2_blocks)

(* em->data[offset] of the encoded message: a data byte, or a byte of the  *)
(* parity stored in ec                                                     *)
em_data(version, input, ec, offset) ==
    LET g2_end  == qr_version_max_data(version)
        ec_size == qr_version_ec_size(version)
    IN IF offset < g2_end
       THEN DataByte(version, input, offset)
       ELSE ec[((offset - g2_end) \div ec_size) + 1]
              .bytes[((offset - g2_end) % ec_size) + 1]

(* encoded_msg_iterator_next at iter->offset = it: [ok, offset], offset    *)
(* being the index into em->data that is read                              *)
encoded_msg_iterator_next(version, it) ==
    LET g1_blocks   == qr_version_g1_blocks(version)
        g2_blocks   == qr_version_g2_blocks(version)
        g1_blk_size == qr_version_g1_blk_size(version)
        g2_blk_size == g1_blk_size + 1
        ec_size     == qr_version_ec_size(version)
        blocks      == g1_blocks + g2_blocks
        g1_end      == g1_blocks * g1_blk_size
        g2_end      == g1_end + g2_blocks * g2_blk_size
        ec_end      == g2_end + ec_size * blocks
    IN IF it >= ec_end
       THEN [ok |-> FALSE, offset |-> 0]
       ELSE IF it < g1_blk_size * blocks
       THEN LET blk     == it % blocks
                blk_off == it \div blocks
            IN IF blk < g1_blocks
               THEN [ok |-> TRUE, offset |-> blk * g1_blk_size + blk_off]
               ELSE [ok |-> TRUE,
                     offset |-> g1_end + (blk - g1_blocks) * g2_blk_size
                                + blk_off]
       ELSE IF it < g2_end
       THEN LET blk2 == it - blocks * g1_blk_size
            IN [ok |-> TRUE,
                offset |-> g1_end + (blk2 \div g2_blk_size) * g2_blk_size
                           + g2_blk_size - 1]
       ELSE LET ec_offset == it - g2_end
                blk       == ec_offset % blocks
                blk_off   == ec_offset \div blocks
            IN [ok |-> TRUE, offset |-> g2_end + blk * ec_size + blk_off]

ItInit ==
    /\ em_version \in 1..40
    /\ em_input \in EncInputs(em_version)
    /\ em_ec = encoded_msg_compute_error_code(em_version, em_input)
    /\ rs_pc = "done"
    /\ rs_i = qr_version_g2_blocks(em_version)
    /\ rs_offset = qr_version_max_data(em_version)
    /\ rs_ec_offset = qr_version_max_data(em_version)
                      + qr_version_ec_size(em_version)
                          * (qr_version_g1_blocks(em_version)
                             + qr_version_g2_blocks(em_version))
    /\ iter_offset = 0
    /\ it_emitted = << >>
    /\ it_byte = 0
    /\ it_pc = "next"
    /\ GenParked
    /\ DrvParked
    /\ NumParked
    /\ FitParked
    /\ EncParked
    /\ ImgParked
    /\ PnParked

(* a call that returns true: the byte is handed out, the offset moves on *)
IteratorNextByte ==
    /\ it_pc = "next"
    /\ \E r \in { encoded_msg_iterator_next(em_version, iter_offset) } :
         /\ r.ok
         /\ it_byte' = em_data(em_version, em_input, em_ec, r.offset)
         /\ it_emitted' = Append(it_emitted, r.offset)
    /\ iter_offset' = iter_offset + 1
    /\ UNCHANGED it_pc
    /\ UNCHANGED << gen_vars, drv_vars, rs_vars >>
    /\ UNCHANGED num_vars
    /\ UNCHANGED fit_vars
    /\ UNCHANGED enc_vars
    /\ UNCHANGED img_vars
    /\ UNCHANGED pn_vars

(* the call that returns false *)
IteratorEnd ==
    /\ it_pc = "next"
    /\ ~encoded_msg_iterator_next(em_version, iter_offset).ok
    /\ it_pc' = "end"
    /\ UNCHANGED << iter_offset, it_emitted, it_byte >>
    /\ UNCHANGED << gen_vars, drv_vars, rs_vars >>
    /\ UNCHANGED num_vars
    /\ UNCHANGED fit_vars
    /\ UNCHANGED enc_vars
    /\ UNCHANGED img_vars
    /\ UNCHANGED pn_vars

ItNext == IteratorNextByte \/ IteratorEnd

SpecIter == ItInit /\ [][ItNext]_vars

(***************************************************************************)
(* The codeword order of the standard (ISO/IEC 18004, 7.6): the data       *)
(* codewords column by column over all blocks, the shorter blocks of       *)
(* group 1 having no entry in the last column, then the parity codewords   *)
(* column by column.  StdOrder(v, p) is the index into the block-after-    *)
(* block array (data blocks, then parity blocks) of the codeword at        *)
(* position p of the final sequence.                                       *)
(***************************************************************************)
StdOrder(v, p) ==
    LET g1 == VPARAM[v].g1_blocks
        g2 == VPARAM[v].g2_blocks
        s1 == VPARAM[v].g1_blk_size
        E  == Len(VPARAM[v].poly)
    IN IF p < s1 * (g1 + g2)
       THEN RefBlockOffset(v, (p % (g1 + g2)) + 1) + p \div (g1 + g2)
       ELSE IF p < D(v)
       THEN RefBlockOffset(v, g1 + (p - s1 * (g1 + g2)) + 1) + s1
       ELSE D(v) + ((p - D(v)) % (g1 + g2)) * E + (p - D(v)) \div (g1 + g2)

(* position in the final sequence of the byte handed out last *)
LastPosition == Len(it_emitted) - 1

(* C13: the bitmap is the matrix of a standard encoder: the codeword that  *)
(* the drawing takes from the iterator and paints into the next eight free *)
(* modules is, at every position, the codeword the standard's final        *)
(* sequence has at that position.                                          *)
C13_Original ==
    (it_pc = "next" /\ Len(it_emitted) > 0) =>
        it_byte = em_data(em_version, em_input, em_ec,
                          StdOrder(em_version, LastPosition))

(* C17: in a version with group-2 blocks, the byte handed out at position  *)
(* s1*(g1+g2) + j is the last data byte of group-2 block j, the byte at    *)
(* index g1*s1 + j*s2 + s2 - 1.                                            *)
C17_Original ==
    LET g1 == VPARAM[em_version].g1_blocks
        g2 == VPARAM[em_version].g2_blocks
        s1 == VPARAM[em_version].g1_blk_size
        s2 == s1 + 1
        j  == LastPosition - s1 * (g1 + g2)
    IN (it_pc = "next" /\ g2 > 0 /\ j >= 0 /\ j < g2) =>
           it_emitted[Len(it_emitted)] = g1 * s1 + j * s2 + s2 - 1

(* C18: data bytes come first and parity bytes after them, no index is     *)
(* handed out twice, and when the iterator reports the end every index in  *)
(* [0, D + E*(g1+g2)) has been handed out.                                 *)
C18_Original ==
    LET n      == Len(it_emitted)
        ec_end == D(em_version)
                  + Len(VPARAM[em_version].poly)
                      * (VPARAM[em_version].g1_blocks
                         + VPARAM[em_version].g2_blocks)
    IN /\ (it_pc = "next" /\ n > 0) =>
            /\ (it_emitted[n] < D(em_version)) <=> (n - 1 < D(em_version))
            /\ \A k \in 1..(n - 1) : it_emitted[k] # it_emitted[n]
       /\ it_pc = "end" =>
            /\ n = ec_end
            /\ { it_emitted[k] : k \in 1..n } = 0..(ec_end - 1)

(***************************************************************************)
(* Numeric segments: get_next_13b and the segment iterator.  The C         *)
(* arithmetic is kept: first_byte and number are u16, a shift is done in   *)
(* int and its result cut to 16 bits when it is stored in number.          *)
(***************************************************************************)
Pow2(k) == 2 ^ k

U16(x) == x % 65536

(* get_next_13b(data, data_len, offset, &size): [number, size] *)
get_next_13b(data, data_len, offset) ==
    IF offset >= data_len * 8
    THEN [number |-> 0, size |-> 0]
    ELSE LET bit_size   == Min(13, data_len * 8 - offset)
             byte_off   == offset \div 8
             bit_off    == offset % 8
             b          == bit_off + bit_size
             first_byte == data[byte_off + 1] % 256
             cleared    == (first_byte * Pow2(bit_off)) \div Pow2(bit_off)
         IN IF b <= 8
            THEN [number |-> U16((first_byte * Pow2(bit_off))
                                 \div Pow2(8 - bit_size)),
                  size |-> bit_size]
            ELSE IF b <= 16
            THEN LET number == U16(U16(cleared) * Pow2(b - 8))
                 IN IF byte_off + 1 < data_len
                    THEN [number |-> U16(number + data[byte_off + 2]
                                                  \div Pow2(16 - b)),
                          size |-> bit_size]
                    ELSE [number |-> number, size |-> 8 - bit_off]
            ELSE IF byte_off + 2 < data_len
            THEN [number |->
                     U16(U16(U16(cleared * Pow2(b - 8))
                             + (data[byte_off + 2] % 256) * Pow2(b - 16))
                         + data[byte_off + 3] \div Pow2(24 - b)),
                  size |-> bit_size]
            ELSE IF byte_off + 1 < data_len
            THEN [number |-> U16(U16(cleared * Pow2(b - 8))
                                 + data[byte_off + 2] \div Pow2(16 - b)),
                  size |-> 16 - bit_off]
            ELSE [number |-> 0, size |-> bit_size]

(***************************************************************************)
(* qr_segment_iterator_next on the iterator state iter = [offset, carry,   *)
(* carry_len]: [ok, bits, size, iter, g13], g13 being the result of the    *)
(* call of get_next_13b if one was made (called).                          *)
(***************************************************************************)
NoCall == [number |-> 0, size |-> 0]

qr_segment_iterator_next(type, data, iter) ==
    IF type = SEGMENT_BINARY
    THEN IF iter.offset < Len(data)
         THEN [ok |-> TRUE, bits |-> data[iter.offset + 1], size |-> 8,
               iter |-> [iter EXCEPT !.offset = iter.offset + 1],
               called |-> FALSE, g13 |-> NoCall]
         ELSE [ok |-> FALSE, bits |-> 0, size |-> 0, iter |-> iter,
               called |-> FALSE, g13 |-> NoCall]
    ELSE IF iter.carry_len = 3
    THEN [ok |-> TRUE, bits |-> iter.carry,
          size |-> NUM_CHARS_BITS[iter.carry_len + 1],
          iter |-> [iter EXCEPT !.carry = 0, !.carry_len = 0],
          called |-> FALSE, g13 |-> NoCall]
    ELSE LET g          == get_next_13b(data, Len(data), iter.offset)
             number     == g.number
             bit_size   == g.size
             new_chars  == IF bit_size = 1 THEN 1 ELSE (bit_size + 1) \div 3
             remaining  == iter.carry_len + new_chars - 3
         IN IF bit_size = 0
            THEN IF iter.carry_len > 0
                 THEN [ok |-> TRUE, bits |-> iter.carry,
                       size |-> NUM_CHARS_BITS[iter.carry_len + 1],
                       iter |-> [iter EXCEPT !.carry_len = 0],
                       called |-> TRUE, g13 |-> g]
                 ELSE [ok |-> FALSE, bits |-> 0, size |-> 0, iter |-> iter,
                       called |-> TRUE, g13 |-> g]
            ELSE IF iter.carry_len + new_chars > 3
            THEN [ok |-> TRUE,
                  bits |-> U16(iter.carry * POW10[new_chars - remaining + 1]
                               + number \div POW10[remaining + 1]),
                  size |-> NUM_CHARS_BITS[3 + 1],
                  iter |-> [offset |-> iter.offset + bit_size,
                            carry |-> number % POW10[remaining + 1],
                            carry_len |-> remaining],
                  called |-> TRUE, g13 |-> g]
            ELSE [ok |-> TRUE,
                  bits |-> U16(iter.carry * POW10[new_chars + 1] + number),
                  size |-> NUM_CHARS_BITS[iter.carry_len + new_chars + 1],
                  iter |-> [offset |-> iter.offset + bit_size,
                            carry |-> 0, carry_len |-> 0],
                  called |-> TRUE, g13 |-> g]

(* segments tried: every length up to MaxSegLen, bytes all 0, all 0xFF or  *)
(* varied                                                                  *)
MaxSegLen == 6

SegPatterns == {"zeros", "ones", "mixed"}

SegByte(pattern, k) == IF pattern = "ones" THEN 255 ELSE PayloadByte(pattern, k)

SegData(n, pattern) == SubSeq([k \in 1..n |-> SegByte(pattern, k - 1)], 1, n)

NumInit ==
    /\ seg_type \in {SEGMENT_BINARY, SEGMENT_NUMERIC}
    /\ \E n \in 0..MaxSegLen, pattern \in SegPatterns :
         /\ seg_data = SegData(n, pattern)
         /\ \E offset \in 0..(8 * n + 1) :
              g13_call = [offset |-> offset, number |-> 0, size |-> 0,
                          returned |-> FALSE]
    /\ sit_offset = 0
    /\ sit_carry = 0
    /\ sit_carry_len = 0
    /\ sit_out = [bits |-> 0, size |-> 0]
    /\ sit_digits = 0
    /\ num_pc = "probe"
    /\ GenParked
    /\ DrvParked
    /\ RsParked
    /\ ItParked
    /\ FitParked
    /\ EncParked
    /\ ImgParked
    /\ PnParked

(* a direct call of get_next_13b at the chosen bit offset *)
GetNext13b ==
    /\ num_pc = "probe"
    /\ \E g \in { get_next_13b(seg_data, Len(seg_data), g13_call.offset) } :
         g13_call' = [offset |-> g13_call.offset, number |-> g.number,
                      size |-> g.size, returned |-> TRUE]
    /\ num_pc' = "next"
    /\ UNCHANGED << seg_type, seg_data, sit_offset, sit_carry, sit_carry_len,
                    sit_out, sit_digits >>
    /\ UNCHANGED << gen_vars, drv_vars, rs_vars, it_vars >>
    /\ UNCHANGED fit_vars
    /\ UNCHANGED enc_vars
    /\ UNCHANGED img_vars
    /\ UNCHANGED pn_vars

(* digits that an output of size bits carries (bytes for a byte segment) *)
DigitsOf(size) == IF size = 8 THEN 1 ELSE CHOOSE k \in 0..3 : NUM_CHARS_BITS[k + 1] = size

(* a call of qr_segment_iterator_next that returns true *)
SegmentIteratorNext ==
    /\ num_pc = "next"
    /\ \E r \in { qr_segment_iterator_next(seg_type, seg_data,
                     [offset |-> sit_offset, carry |-> sit_carry,
                      carry_len |-> sit_carry_len]) } :
         /\ r.ok
         /\ sit_offset' = r.iter.offset
         /\ sit_carry' = r.iter.carry
         /\ sit_carry_len' = r.iter.carry_len
         /\ sit_out' = [bits |-> r.bits, size |-> r.size]
         /\ sit_digits' = sit_digits + DigitsOf(r.size)
         /\ g13_call' = IF r.called
                        THEN [offset |-> sit_offset, number |-> r.g13.number,
                              size |-> r.g13.size, returned |-> TRUE]
                        ELSE g13_call
    /\ UNCHANGED << seg_type, seg_data, num_pc >>
    /\ UNCHANGED << gen_vars, drv_vars, rs_vars, it_vars >>
    /\ UNCHANGED fit_vars
    /\ UNCHANGED enc_vars
    /\ UNCHANGED img_vars
    /\ UNCHANGED pn_vars

(* the call that returns false *)
SegmentIteratorEnd ==
    /\ num_pc = "next"
    /\ \E r \in { qr_segment_iterator_next(seg_type, seg_data,
                     [offset |-> sit_offset, carry |-> sit_carry,
                      carry_len |-> sit_carry_len]) } :
         /\ ~r.ok
         /\ g13_call' = IF r.called
                        THEN [offset |-> sit_offset, number |-> r.g13.number,
                              size |-> r.g13.size, returned |-> TRUE]
                        ELSE g13_call
    /\ num_pc' = "end"
    /\ UNCHANGED << seg_type, seg_data, sit_offset, sit_carry, sit_carry_len,
                    sit_out, sit_digits >>
    /\ UNCHANGED << gen_vars, drv_vars, rs_vars, it_vars >>
    /\ UNCHANGED fit_vars
    /\ UNCHANGED enc_vars
    /\ UNCHANGED img_vars
    /\ UNCHANGED pn_vars

NumNext == GetNext13b \/ SegmentIteratorNext \/ SegmentIteratorEnd

SpecNum == NumInit /\ [][NumNext]_vars

(* the integer formed by the size bits of data from bit offset on, the     *)
(* first bit being the most significant (bit 0 of the data is the top bit  *)
(* of data[0])                                                             *)
BitAt(data, k) == (data[(k \div 8) + 1] \div Pow2(7 - (k % 8))) % 2

RECURSIVE BitsValue(_, _, _)
BitsValue(data, offset, size) ==
    IF size = 0 THEN 0
    ELSE 2 * BitsValue(data, offset, size - 1) + BitAt(data, offset + size - 1)

(* C20: get_next_13b reports size = min(13, 8*len - offset), 0 at or past  *)
(* the end, and returns the integer formed by exactly those bits, most     *)
(* significant first, a value in [0, 8191].                                *)
C20_Original ==
    g13_call.returned =>
        LET len  == Len(seg_data)
            left == 8 * len - g13_call.offset
        IN /\ g13_call.size = (IF left <= 0 THEN 0 ELSE Min(13, left))
           /\ g13_call.number
                = BitsValue(seg_data, g13_call.offset, g13_call.size)
           /\ g13_call.number \in 0..8191

(* C19: the character count of a numeric segment is the number of decimal  *)
(* digits its iterator hands out from the first call to the end.           *)
C19_Original ==
    (num_pc = "end" /\ seg_type = SEGMENT_NUMERIC) =>
        qr_segment_character_count(
            [type |-> seg_type, length |-> Len(seg_data)]) = sit_digits

(***************************************************************************)
(* The fitter on its own: one call of qrcon_compress_data, taken through   *)
(* its validation, the passes of its search loop and its final pass.  The  *)
(* destination is the payload/image buffer, as at its only call site.      *)
(***************************************************************************)
MaxFitLen == 40

FitVersions == {0, 1, 2, 5, 20, 41}

(* source lengths: every length up to MaxFitLen, and the skip size *)
FitLens == (1..MaxFitLen) \cup {QR_SKIP_SIZE}

FitTargetCapacity(version) ==
    Min(qr_max_data_size(version, 0), QR_PAYLOAD_AND_IMAGE_BUF_SIZE)

FitInit ==
    /\ \E z \in ZstdProfiles, version \in FitVersions, src \in {0, 2},
          src_size \in FitLens :
         fit_args = [z |-> z, version |-> version, src |-> src,
                     src_size |-> src_size]
    /\ fit_st = [low |-> 1, high |-> 0, best_size |-> 0,
                 best_compressed_payload |-> 0, dst |-> WorkBuf, probes |-> 0]
    /\ fit_res = FitterFailed(WorkBuf, 0)
    /\ fit_pc = "validate"
    /\ GenParked
    /\ DrvParked
    /\ RsParked
    /\ ItParked
    /\ NumParked
    /\ EncParked
    /\ ImgParked
    /\ PnParked

(* the checks before the search: version, capacity, room for the header *)
FitValidate ==
    /\ fit_pc = "validate"
    /\ IF fit_args.version < 1 \/ fit_args.version > 40
          \/ qr_max_data_size(fit_args.version, 0) = 0
          \/ FitTargetCapacity(fit_args.version) <= QR_COMPRESSION_HEADER_SIZE
       THEN /\ fit_res' = FitterFailed(fit_st.dst, 0)
            /\ fit_pc' = "done"
            /\ UNCHANGED fit_st
       ELSE /\ fit_st' = [fit_st EXCEPT !.low = 1,
                                        !.high = fit_args.src_size]
            /\ fit_pc' = "search"
            /\ UNCHANGED fit_res
    /\ UNCHANGED fit_args
    /\ UNCHANGED << gen_vars, drv_vars, rs_vars, it_vars, num_vars >>
    /\ UNCHANGED enc_vars
    /\ UNCHANGED img_vars
    /\ UNCHANGED pn_vars

(* one pass through the body of the while loop *)
FitSearchProbe ==
    /\ fit_pc = "search"
    /\ fit_st.low <= fit_st.high
    /\ \E mid \in { fit_st.low + (fit_st.high - fit_st.low) \div 2 } :
         /\ mid # 0
         /\ fit_st' = SearchProbe(fit_args.z, fit_args.src,
                          FitTargetCapacity(fit_args.version),
                          FitTargetCapacity(fit_args.version)
                            - QR_COMPRESSION_HEADER_SIZE,
                          fit_st, mid)
    /\ UNCHANGED << fit_args, fit_res, fit_pc >>
    /\ UNCHANGED << gen_vars, drv_vars, rs_vars, it_vars, num_vars >>
    /\ UNCHANGED enc_vars
    /\ UNCHANGED img_vars
    /\ UNCHANGED pn_vars

(* the loop is left *)
FitSearchEnd ==
    /\ fit_pc = "search"
    /\ \/ ~(fit_st.low <= fit_st.high)
       \/ fit_st.low + (fit_st.high - fit_st.low) \div 2 = 0
    /\ fit_pc' = "final"
    /\ UNCHANGED << fit_args, fit_st, fit_res >>
    /\ UNCHANGED << gen_vars, drv_vars, rs_vars, it_vars, num_vars >>
    /\ UNCHANGED enc_vars
    /\ UNCHANGED img_vars
    /\ UNCHANGED pn_vars

(* header, final compression, and the return *)
FitFinalPass ==
    /\ fit_pc = "final"
    /\ \E dev \in Deviations :
         fit_res' = FinalPass(fit_args.z, fit_args.src,
                        FitTargetCapacity(fit_args.version),
                        FitTargetCapacity(fit_args.version)
                          - QR_COMPRESSION_HEADER_SIZE,
                        fit_st, dev)
    /\ fit_pc' = "done"
    /\ UNCHANGED << fit_args, fit_st >>
    /\ UNCHANGED << gen_vars, drv_vars, rs_vars, it_vars, num_vars >>
    /\ UNCHANGED enc_vars
    /\ UNCHANGED img_vars
    /\ UNCHANGED pn_vars

FitNext == FitValidate \/ FitSearchProbe \/ FitSearchEnd \/ FitFinalPass

SpecFit == FitInit /\ [][FitNext]_vars

(* fits(m) for the call in fit_args, and whether it is monotone over the   *)
(* lengths 1..n: a length that fits is preceded by one that fits           *)
Fits(m) == FrameFits(fit_args.z, fit_args.version, fit_args.src, m)

FitsIsMonotone == \A m \in 2..fit_args.src_size : Fits(m) => Fits(m - 1)

RECURSIVE Log2Floor(_)
Log2Floor(n) == IF n <= 1 THEN 0 ELSE 1 + Log2Floor(n \div 2)

(* C14: when fits is monotone, the search leaves the loop with best_size   *)
(* the largest length in 1..n that fits (0 if none does), having made at   *)
(* most floor(log2(n)) + 1 compressions.                                   *)
C14_SearchFindsMaximum ==
    (fit_pc = "final" /\ FitsIsMonotone) =>
        /\ fit_st.best_size \in 0..fit_args.src_size
        /\ fit_st.best_size > 0 => Fits(fit_st.best_size)
        /\ \A m \in (fit_st.best_size + 1)..fit_args.src_size : ~Fits(m)
        /\ fit_st.probes <= Log2Floor(fit_args.src_size) + 1

(* a search over a monotone fit that took the full number of compressions  *)
(* and ended strictly inside the range                                     *)
C14_Witness ==
    /\ fit_pc = "final"
    /\ FitsIsMonotone
    /\ fit_st.best_size > 1
    /\ fit_st.best_size < fit_args.src_size
    /\ fit_args.src_size > 8
    /\ fit_st.probes = Log2Floor(fit_args.src_size) + 1

(* what the final compression stored: << src, len, size >>, or << >> if it *)
(* failed; it was made if the search had recorded a length                 *)
FinalPassRan == fit_st.best_size > 0

FinalStored == fit_res.dst.payload

(* C15: the fitter returns either length 0 with consumed length 0, which   *)
(* happens exactly for an invalid version, a capacity of at most 8, a      *)
(* search that found no prefix, or a final compression that fails or       *)
(* exceeds C(v); or a length L, 8 < L <= C(v), with a consumed length k,   *)
(* 1 <= k <= n.  A final compression within C(v) is accepted with its own  *)
(* size, whether or not that is the size recorded by the search.           *)
C15_FitterOutcomes ==
    fit_pc = "done" =>
        LET v == fit_args.version
            n == fit_args.src_size
        IN /\ \/ fit_res.ret = 0 /\ fit_res.processed_size = 0
              \/ /\ fit_res.ret > QR_COMPRESSION_HEADER_SIZE
                 /\ fit_res.ret <= C(v)
                 /\ fit_res.processed_size \in 1..n
           /\ fit_res.ret = 0
                <=> \/ v < 1 \/ v > 40
                    \/ C(v) <= QR_COMPRESSION_HEADER_SIZE
                    \/ ~FinalPassRan
                    \/ FinalStored = << >>
                    \/ QR_COMPRESSION_HEADER_SIZE + FinalStored[3] > C(v)
           /\ ( /\ FinalPassRan
                /\ FinalStored # << >>
                /\ QR_COMPRESSION_HEADER_SIZE + FinalStored[3] <= C(v) )
                => /\ fit_res.ret = QR_COMPRESSION_HEADER_SIZE + FinalStored[3]
                   /\ fit_res.processed_size = fit_st.best_size

(* a frame returned although the final compression came out one byte       *)
(* larger than the search had recorded                                     *)
C15_Witness ==
    /\ fit_pc = "done"
    /\ fit_res.ret > QR_COMPRESSION_HEADER_SIZE
    /\ FinalStored # << >>
    /\ FinalStored[3] = fit_st.best_compressed_payload + 1
    /\ fit_res.processed_size > 1

(* the step of the driver loop that follows a failed fit *)
C16_StepAfterFailedFit ==
    (drv_pc = "fitted" /\ compressed_size = 0) =>
        /\ kmsg_history_pos'
             = kmsg_history_pos
               + Min(QR_SKIP_SIZE, kmsg_history_len - kmsg_history_pos)
        /\ kmsg_history_pos' <= kmsg_history_len
        /\ kmsg_history_len' = kmsg_history_len
        /\ qr_payload_and_image_buf' = qr_payload_and_image_buf
        /\ qr_payload_and_image_buf.kind # "image"
        /\ qr_width' = qr_width
        /\ qr_payload_len' = qr_payload_len
        /\ last_event'.kind = "skip"
        /\ drv_pc' = "loop"

(* C16: after a failed fit the driver renders nothing in that iteration    *)
(* (the payload/image buffer, the payload length and the symbol width stay *)
(* as they are, and the buffer holds no bitmap), moves the cursor forward  *)
(* by exactly min(1024, L - pos), not beyond L, and goes back to the loop  *)
(* condition.                                                              *)
C16_SkipOnFailure == [][C16_StepAfterFailedFit]_vars

(* a skip shorter than the skip size that ended exactly at the end of the  *)
(* log, after an earlier skip of the full size                             *)
C16_Witness ==
    /\ drv_pc = "loop"
    /\ last_event.kind = "skip"
    /\ last_event.len < QR_SKIP_SIZE
    /\ last_event.pos >= QR_SKIP_SIZE
    /\ kmsg_history_pos = kmsg_history_len
    /\ iterations >= 2
(***************************************************************************)
(* The encoder: encoded_msg_init, then encoded_msg_add_segments one call   *)
(* of encoded_msg_push at a time.                                          *)
(***************************************************************************)
(* bitwise or of two bytes *)
OrByte(a, b) ==
      (IF (a % 2) + (b % 2) > 0 THEN 1 ELSE 0)
    + (IF ((a \div 2) % 2) + ((b \div 2) % 2) > 0 THEN 2 ELSE 0)
    + (IF ((a \div 4) % 2) + ((b \div 4) % 2) > 0 THEN 4 ELSE 0)
    + (IF ((a \div 8) % 2) + ((b \div 8) % 2) > 0 THEN 8 ELSE 0)
    + (IF ((a \div 16) % 2) + ((b \div 16) % 2) > 0 THEN 16 ELSE 0)
    + (IF ((a \div 32) % 2) + ((b \div 32) % 2) > 0 THEN 32 ELSE 0)
    + (IF ((a \div 64) % 2) + ((b \div 64) % 2) > 0 THEN 64 ELSE 0)
    + (IF ((a \div 128) % 2) + ((b \div 128) % 2) > 0 THEN 128 ELSE 0)

(* number << k and number >> k, cut to a byte by & 0xFF *)
ShlByte(number, k) == (number * Pow2(k)) % 256

ShrByte(number, k) == (number \div Pow2(k)) % 256

(* encoded_msg_push(em, &offset, number, len_bits): [data, offset], data   *)
(* being em->data with data[k + 1] for the C element k                     *)
encoded_msg_push(data, offset, number, len_bits) ==
    LET byte_off == offset \div 8
        bit_off  == offset % 8
        b        == bit_off + len_bits
        at(k)    == byte_off + k + 1
    IN [offset |-> offset + len_bits,
        data |->
          IF bit_off = 0 /\ b <= 8
          THEN [data EXCEPT ![at(0)] = ShlByte(number, 8 - b)]
          ELSE IF bit_off = 0
          THEN [data EXCEPT ![at(0)] = ShrByte(number, b - 8),
                            ![at(1)] = ShlByte(number, 16 - b)]
          ELSE IF b <= 8
          THEN [data EXCEPT ![at(0)] = OrByte(@, ShlByte(number, 8 - b))]
          ELSE IF b <= 16
          THEN [data EXCEPT ![at(0)] = OrByte(@, ShrByte(number, b - 8)),
                            ![at(1)] = ShlByte(number, 16 - b)]
          ELSE [data EXCEPT ![at(0)] = OrByte(@, ShrByte(number, b - 8)),
                            ![at(1)] = ShrByte(number, b - 16),
                            ![at(2)] = ShlByte(number, 24 - b)]]

(* qr_segment_get_header: the mode indicator, of 4 bits *)
qr_segment_get_header(segment) ==
    IF segment.type = SEGMENT_BINARY THEN MODE_BINARY
    ELSE IF segment.type = SEGMENT_NUMERIC THEN MODE_NUMERIC
    ELSE 0

(* qr_segment_get_length_field: char_count & ((1 << len_bits) - 1) *)
qr_segment_get_length_field(segment, version) ==
    qr_segment_character_count(segment)
        % Pow2(qr_segment_length_bits_count(segment, version))

(* qr_segment_iterator_init *)
qr_segment_iterator_init == [offset |-> 0, carry |-> 0, carry_len |-> 0]

(* variant: the padding byte chosen by the index alone *)
padding_byte_by_index(i, pad_offset) == PADDING[(i % 2) + 1]

(* PADDING[(i & 1) ^ (pad_offset & 1)] *)
padding_byte(i, pad_offset) ==
    PADDING[(((i % 2) + (pad_offset % 2)) % 2) + 1]

(* the bytes the encoder uses of the buffer handed to encoded_msg_init *)
required_size(version) ==
    qr_version_max_data(version)
      + qr_version_ec_size(version)
          * (qr_version_g1_blocks(version) + qr_version_g2_blocks(version))

(* the bytes at segment->data *)
EncByte(pattern, k) ==
    IF pattern = "url" THEN 97 + (k % 26) ELSE SegByte(pattern, k)

EncSegData(segment) ==
    SubSeq([k \in 1..segment.length |-> EncByte(segment.pattern, k - 1)],
           1, segment.length)

(* the segments qr_generate builds: the payload as one byte segment, or    *)
(* the URL as a byte segment followed by the payload as a numeric one      *)
ByteOnly(n, pattern) ==
    << [type |-> SEGMENT_BINARY, length |-> n, pattern |-> pattern] >>

UrlAndNumeric(u, n, pattern) ==
    << [type |-> SEGMENT_BINARY, length |-> u, pattern |-> "url"],
       [type |-> SEGMENT_NUMERIC, length |-> n, pattern |-> pattern] >>

Accepted(segments, version) ==
    encoded_msg_init(segments, version, QR_TMP_WORKSPACE_SIZE).ok

(* versions run with every payload length, and URL lengths used there *)
EncSmallVersions == {1, 2}

MaxEncUrl == 10

(* versions run with the longest segments encoded_msg_init accepts: the    *)
(* last and first version of each width of the length fields               *)
EncBigVersions == {9, 10, 26, 27, 40}

EncInputs_small(version) ==
    { ByteOnly(n, pattern) :
        n \in 0..(qr_version_max_data(version) - 1), pattern \in SegPatterns }
    \cup
    { UrlAndNumeric(u, n, pattern) :
        u \in 1..MaxEncUrl, n \in 0..qr_version_max_data(version),
        pattern \in SegPatterns }

EncInputs_big(version) ==
    LET lens == 0..qr_version_max_data(version)
    IN { ByteOnly(n, "mixed") :
           n \in { m \in lens :
                     /\ Accepted(ByteOnly(m, "mixed"), version)
                     /\ ~Accepted(ByteOnly(m + 1, "mixed"), version) } }
       \cup
       { UrlAndNumeric(1, n, "mixed") :
           n \in { m \in lens :
                     /\ Accepted(UrlAndNumeric(1, m, "mixed"), version)
                     /\ ~Accepted(UrlAndNumeric(1, m + 1, "mixed"), version) } }
       \cup
       { UrlAndNumeric(u, 0, "mixed") :
           u \in { m \in lens :
                     /\ Accepted(UrlAndNumeric(m, 0, "mixed"), version)
                     /\ ~Accepted(UrlAndNumeric(m + 1, 0, "mixed"), version) } }

EncInit ==
    /\ enc_version \in EncSmallVersions \cup EncBigVersions
    /\ enc_segments \in (IF enc_version \in EncSmallVersions
                         THEN EncInputs_small(enc_version)
                         ELSE EncInputs_big(enc_version))
    /\ enc_data = << >>
    /\ enc_offset = 0
    /\ enc_i = 0
    /\ enc_iter = qr_segment_iterator_init
    /\ enc_total_bits = 0
    /\ enc_push = [kind |-> "none", offset |-> 0, number |-> 0,
                   len_bits |-> 0, altered |-> FALSE]
    /\ enc_pad_offset = 0
    /\ enc_pc = "init"
    /\ GenParked
    /\ DrvParked
    /\ RsParked
    /\ ItParked
    /\ NumParked
    /\ FitParked
    /\ ImgParked
    /\ PnParked

(* encoded_msg_init: the capacity check, then the memset of the buffer *)
EncodedMsgInit ==
    /\ enc_pc = "init"
    /\ enc_total_bits' = SumTotalBits(enc_segments, enc_version, 1) + 4
    /\ IF Accepted(enc_segments, enc_version)
       THEN /\ enc_data' = SubSeq([k \in 1..required_size(enc_version) |-> 0],
                                  1, required_size(enc_version))
            /\ enc_pc' = "header"
       ELSE /\ enc_data' = enc_data
            /\ enc_pc' = "rejected"
    /\ UNCHANGED << enc_version, enc_segments, enc_offset, enc_i, enc_iter,
                    enc_push, enc_pad_offset >>
    /\ UNCHANGED << gen_vars, drv_vars, rs_vars, it_vars, num_vars, fit_vars >>
    /\ UNCHANGED img_vars
    /\ UNCHANGED pn_vars

(* whether a bit in front of offset differs between old and new *)
Altered(old, new, offset) ==
    \/ SubSeq(old, 1, offset \div 8) # SubSeq(new, 1, offset \div 8)
    \/ /\ offset % 8 # 0
       /\ old[(offset \div 8) + 1] \div Pow2(8 - (offset % 8))
            # new[(offset \div 8) + 1] \div Pow2(8 - (offset % 8))

(* one call encoded_msg_push(em, &offset, number, len_bits) *)
Push(kind, number, len_bits) ==
    \E r \in { encoded_msg_push(enc_data, enc_offset, number, len_bits) } :
      /\ enc_data' = r.data
      /\ enc_offset' = r.offset
      /\ enc_push' = [kind |-> kind, offset |-> enc_offset,
                      number |-> number, len_bits |-> len_bits,
                      altered |-> Altered(enc_data, r.data, enc_offset)]

(* the segment header is pushed *)
PushHeader ==
    /\ enc_pc = "header"
    /\ Push("header", qr_segment_get_header(enc_segments[enc_i + 1]), 4)
    /\ enc_pc' = "length"
    /\ UNCHANGED << enc_version, enc_segments, enc_i, enc_iter,
                    enc_total_bits, enc_pad_offset >>
    /\ UNCHANGED << gen_vars, drv_vars, rs_vars, it_vars, num_vars, fit_vars >>
    /\ UNCHANGED img_vars
    /\ UNCHANGED pn_vars

(* the length field is pushed and the segment iterator initialised *)
PushLength ==
    /\ enc_pc = "length"
    /\ Push("length",
            qr_segment_get_length_field(enc_segments[enc_i + 1], enc_version),
            qr_segment_length_bits_count(enc_segments[enc_i + 1], enc_version))
    /\ enc_iter' = qr_segment_iterator_init
    /\ enc_pc' = "data"
    /\ UNCHANGED << enc_version, enc_segments, enc_i, enc_total_bits,
                    enc_pad_offset >>
    /\ UNCHANGED << gen_vars, drv_vars, rs_vars, it_vars, num_vars, fit_vars >>
    /\ UNCHANGED img_vars
    /\ UNCHANGED pn_vars

(* qr_segment_iterator_next returned true: its bits are pushed *)
PushData ==
    /\ enc_pc = "data"
    /\ \E r \in { qr_segment_iterator_next(enc_segments[enc_i + 1].type,
                      EncSegData(enc_segments[enc_i + 1]), enc_iter) } :
         /\ r.ok
         /\ Push("data", r.bits, r.size)
         /\ enc_iter' = r.iter
    /\ UNCHANGED << enc_version, enc_segments, enc_i, enc_total_bits,
                    enc_pad_offset, enc_pc >>
    /\ UNCHANGED << gen_vars, drv_vars, rs_vars, it_vars, num_vars, fit_vars >>
    /\ UNCHANGED img_vars
    /\ UNCHANGED pn_vars

(* qr_segment_iterator_next returned false: on to the next segment, or out *)
(* of the loop over the segments                                           *)
EndSegment ==
    /\ enc_pc = "data"
    /\ \E r \in { qr_segment_iterator_next(enc_segments[enc_i + 1].type,
                      EncSegData(enc_segments[enc_i + 1]), enc_iter) } :
         ~r.ok
    /\ enc_i' = enc_i + 1
    /\ enc_pc' = IF enc_i + 1 < Len(enc_segments) THEN "header" ELSE "stop"
    /\ UNCHANGED << enc_version, enc_segments, enc_data, enc_offset, enc_iter,
                    enc_total_bits, enc_push, enc_pad_offset >>
    /\ UNCHANGED << gen_vars, drv_vars, rs_vars, it_vars, num_vars, fit_vars >>
    /\ UNCHANGED img_vars
    /\ UNCHANGED pn_vars

(* the terminator is pushed *)
PushTerminator ==
    /\ enc_pc = "stop"
    /\ Push("stop", MODE_STOP, 4)
    /\ enc_pc' = "align"
    /\ UNCHANGED << enc_version, enc_segments, enc_i, enc_iter,
                    enc_total_bits, enc_pad_offset >>
    /\ UNCHANGED << gen_vars, drv_vars, rs_vars, it_vars, num_vars, fit_vars >>
    /\ UNCHANGED img_vars
    /\ UNCHANGED pn_vars

(* zero bits up to the byte boundary if offset is not on one; pad_offset   *)
(* is set                                                                  *)
PadToByte ==
    /\ enc_pc = "align"
    /\ IF enc_offset % 8 # 0
       THEN /\ Push("zeros", 0, 8 - (enc_offset % 8))
            /\ enc_pad_offset' = (enc_offset + 8 - (enc_offset % 8)) \div 8
       ELSE /\ UNCHANGED << enc_data, enc_offset, enc_push >>
            /\ enc_pad_offset' = enc_offset \div 8
    /\ enc_pc' = "padding"
    /\ UNCHANGED << enc_version, enc_segments, enc_i, enc_iter,
                    enc_total_bits >>
    /\ UNCHANGED << gen_vars, drv_vars, rs_vars, it_vars, num_vars, fit_vars >>
    /\ UNCHANGED img_vars
    /\ UNCHANGED pn_vars

(* the loop that stores the padding bytes *)
PadBytes ==
    /\ enc_pc = "padding"
    /\ enc_data' = [k \in 1..Len(enc_data) |->
                      IF /\ k - 1 >= enc_pad_offset
                         /\ k - 1 < qr_version_max_data(enc_version)
                      THEN padding_byte(k - 1, enc_pad_offset)
                      ELSE enc_data[k]]
    /\ enc_pc' = "done"
    /\ UNCHANGED << enc_version, enc_segments, enc_offset, enc_i, enc_iter,
                    enc_total_bits, enc_push, enc_pad_offset >>
    /\ UNCHANGED << gen_vars, drv_vars, rs_vars, it_vars, num_vars, fit_vars >>
    /\ UNCHANGED img_vars
    /\ UNCHANGED pn_vars

EncNext ==
    \/ EncodedMsgInit
    \/ PushHeader
    \/ PushLength
    \/ PushData
    \/ EndSegment
    \/ PushTerminator
    \/ PadToByte
    \/ PadBytes

SpecEnc == EncInit /\ [][EncNext]_vars

(***************************************************************************)
(* Properties of the encoder.                                              *)
(***************************************************************************)
(* the bytes of the data region from pad_offset on *)
PadIndices == enc_pad_offset..(qr_version_max_data(enc_version) - 1)

(* C21 as stated: the padding bytes alternate 0xEC, 0x11 in step with      *)
(* their index in the data region, so that the byte written first is 0xEC  *)
(* when padding starts at an even byte offset and 0x11 when it starts at   *)
(* an odd one.                                                             *)
C21_Original ==
    enc_pc = "done" =>
      \A i \in PadIndices : enc_data[i + 1] = PADDING[(i % 2) + 1]

(* C21, amended: once encoded_msg_add_segments has returned, the bytes     *)
(* from pad_offset up to D(v) alternate 0xEC, 0x11 counted from the byte   *)
(* at which padding starts: the first padding byte is 0xEC whatever the    *)
(* parity of pad_offset.                                                   *)
C21_PaddingStartsWithEC ==
    enc_pc = "done" =>
      \A i \in PadIndices :
        enc_data[i + 1] = (IF (i - enc_pad_offset) % 2 = 0 THEN 236 ELSE 17)

(* a message whose padding starts at an odd byte offset, at least two      *)
(* padding bytes long                                                      *)
C21_Witness ==
    /\ enc_pc = "done"
    /\ enc_pad_offset % 2 = 1
    /\ enc_pad_offset + 2 <= qr_version_max_data(enc_version)
    /\ enc_data[enc_pad_offset + 1] = 236
    /\ enc_data[enc_pad_offset + 2] = 17

(* C26: whenever encoded_msg_init accepts the segments for a version, the  *)
(* character count of every segment is below 2^(width of its length        *)
(* field), so the length field pushed is the character count itself: the   *)
(* mask in qr_segment_get_length_field cuts nothing off.                   *)
C26_LengthFieldFits ==
    /\ enc_pc \notin {"init", "rejected"} =>
         \A i \in 1..Len(enc_segments) :
           qr_segment_character_count(enc_segments[i])
             < Pow2(qr_segment_length_bits_count(enc_segments[i], enc_version))
    /\ enc_pc = "data" /\ enc_push.kind = "length" =>
         enc_push.number = qr_segment_character_count(enc_segments[enc_i + 1])

(* the longest byte segment accepted at version 9, the last version with   *)
(* an 8-bit length field: its length field has just been pushed            *)
C26_Witness ==
    /\ enc_version = 9
    /\ enc_pc = "data"
    /\ enc_push.kind = "length"
    /\ enc_push.len_bits = 8
    /\ enc_segments[1].length = qr_version_max_data(9) - 2
    /\ enc_push.number = enc_segments[1].length

(* C27: every call of encoded_msg_push made while the segments are added   *)
(* has number < 2^len_bits (the numeric groups fit 4, 7 or 10 bits and the *)
(* carry length stays within 0..3), so that no push changes a bit written  *)
(* by an earlier push.                                                     *)
C27_Original ==
    /\ enc_iter.carry_len \in 0..3
    /\ enc_push.kind # "none" =>
         /\ enc_push.number < Pow2(enc_push.len_bits)
         /\ ~enc_push.altered

(* C28: for every accepted set of segments the bits pushed (headers,       *)
(* length fields, iterator output and terminator) are total_bits as        *)
(* computed by encoded_msg_init, so the write offset never exceeds 8*D(v)  *)
(* and no segment bit is written into the parity region.                   *)
C28_Original ==
    /\ enc_pc = "align" => enc_offset = enc_total_bits
    /\ enc_pc \notin {"parked", "init", "rejected"} =>
         enc_offset <= 8 * qr_version_max_data(enc_version)

(***************************************************************************)
(* The image: which modules are reserved, and the walk over the modules.   *)
(* Coordinates are u8; qr->width is qr_version_width(version).             *)
(***************************************************************************)
(* the rows of ALIGNMENT_PATTERNS, without the terminating 0 *)
ALIGNMENT_PATTERNS ==
    << << >>,
       << 6, 18 >>, << 6, 22 >>, << 6, 26 >>, << 6, 30 >>, << 6, 34 >>,
       << 6, 22, 38 >>, << 6, 24, 42 >>, << 6, 26, 46 >>, << 6, 28, 50 >>,
       << 6, 30, 54 >>, << 6, 32, 58 >>, << 6, 34, 62 >>,
       << 6, 26, 46, 66 >>, << 6, 26, 48, 70 >>, << 6, 26, 50, 74 >>,
       << 6, 30, 54, 78 >>, << 6, 30, 56, 82 >>, << 6, 30, 58, 86 >>,
       << 6, 34, 62, 90 >>,
       << 6, 28, 50, 72, 94 >>, << 6, 26, 50, 74, 98 >>,
       << 6, 30, 54, 78, 102 >>, << 6, 28, 54, 80, 106 >>,
       << 6, 32, 58, 84, 110 >>, << 6, 30, 58, 86, 114 >>,
       << 6, 34, 62, 90, 118 >>,
       << 6, 26, 50, 74, 98, 122 >>, << 6, 30, 54, 78, 102, 126 >>,
       << 6, 26, 52, 78, 104, 130 >>, << 6, 30, 56, 82, 108, 134 >>,
       << 6, 34, 60, 86, 112, 138 >>, << 6, 30, 58, 86, 114, 142 >>,
       << 6, 34, 62, 90, 118, 146 >>,
       << 6, 30, 54, 78, 102, 126, 150 >>,
       << 6, 24, 50, 76, 102, 128, 154 >>,
       << 6, 28, 54, 80, 106, 132, 158 >>,
       << 6, 32, 58, 84, 110, 136, 162 >>,
       << 6, 26, 54, 82, 110, 138, 166 >>,
       << 6, 30, 58, 86, 114, 142, 170 >> >>

qr_version_alignment_pattern(version) == ALIGNMENT_PATTERNS[version]

qr_image_is_finder(version, x, y) ==
    LET end == (qr_version_width(version) - 8) % 256
    IN \/ x < 8 /\ y < 8
       \/ x < 8 /\ y >= end
       \/ x >= end /\ y < 8

qr_image_is_alignment(version, x, y) ==
    LET positions == qr_version_alignment_pattern(version)
    IN \E i \in 1..Len(positions), j \in 1..Len(positions) :
         /\ ~qr_image_is_finder(version, positions[i], positions[j])
         /\ x >= positions[i] - 2 /\ x <= positions[i] + 2
         /\ y >= positions[j] - 2 /\ y <= positions[j] + 2

qr_image_is_timing(x, y) == x = 6 \/ y = 6

qr_image_is_maskinfo(version, x, y) ==
    LET end == (qr_version_width(version) - 8) % 256
    IN \/ x <= 8 /\ y = 8
       \/ y <= 8 /\ x = 8
       \/ x = 8 /\ y >= end
       \/ x >= end /\ y = 8

(* variant: no module belongs to a version patch *)
qr_image_is_version_info_never(version, x, y) == FALSE

(* qr_version_info(version) is 0 exactly for the versions outside 7..40 *)
qr_image_is_version_info(version, x, y) ==
    LET pos == (qr_version_width(version) - 11) % 256
    IN IF version < 7 \/ version > 40 THEN FALSE
       ELSE \/ x >= pos /\ x < pos + 3 /\ y < 6
            \/ y >= pos /\ y < pos + 3 /\ x < 6

qr_image_is_reserved(version, x, y) ==
    \/ qr_image_is_alignment(version, x, y)
    \/ qr_image_is_finder(version, x, y)
    \/ qr_image_is_timing(x, y)
    \/ qr_image_is_maskinfo(version, x, y)
    \/ qr_image_is_version_info(version, x, y)

qr_image_is_last(version, x, y) ==
    x = 0 /\ y = qr_version_width(version) - 1

(* qr_image_next(qr, &x, &y): the new << x, y >>; every store is cut to    *)
(* 8 bits                                                                  *)
qr_image_next(version, x, y) ==
    LET width       == qr_version_width(version)
        x_adj       == IF x <= 6 THEN (x + 1) % 256 ELSE x
        diff        == width - x_adj
        column_type == IF diff >= 0 THEN diff % 4
                       ELSE (256 - ((0 - diff) % 4)) % 256
    IN IF column_type = 2
       THEN (IF y > 0 THEN << (x + 1) % 256, (y + 255) % 256 >>
             ELSE << (x + 255) % 256, y >>)
       ELSE IF column_type = 0
       THEN (IF y < width - 1 THEN << (x + 1) % 256, (y + 1) % 256 >>
             ELSE << (x + 255) % 256, y >>)
       ELSE (IF x = 7 THEN << (x + 254) % 256, y >>
             ELSE << (x + 255) % 256, y >>)

(* the while loop of qr_image_next_available, entered at << x, y >> *)
RECURSIVE SkipReserved(_, _, _)
SkipReserved(version, x, y) ==
    IF qr_image_is_reserved(version, x, y) /\ ~qr_image_is_last(version, x, y)
    THEN LET n == qr_image_next(version, x, y)
         IN SkipReserved(version, n[1], n[2])
    ELSE << x, y >>

(* variant: the next module, reserved or not *)
qr_image_next_available_any(version, x, y) == qr_image_next(version, x, y)

qr_image_next_available(version, x, y) ==
    LET n == qr_image_next(version, x, y)
    IN SkipReserved(version, n[1], n[2])

(***************************************************************************)
(* qr_image_next applied again and again from the bottom right module.     *)
(***************************************************************************)
WalkInit ==
    /\ img_version \in 1..40
    /\ img_x = qr_version_width(img_version) - 1
    /\ img_y = qr_version_width(img_version) - 1
    /\ img_iter = 0
    /\ img_bit = 0
    /\ img_touched = << >>
    /\ img_rest = 0
    /\ img_steps = 0
    /\ img_prev = -1
    /\ img_pc = "walk"
    /\ GenParked
    /\ DrvParked
    /\ RsParked
    /\ ItParked
    /\ NumParked
    /\ FitParked
    /\ EncParked
    /\ PnParked

(* one more call of qr_image_next, as long as the module is inside the     *)
(* image and not the last one                                              *)
WalkNext ==
    /\ img_pc = "walk"
    /\ ~qr_image_is_last(img_version, img_x, img_y)
    /\ img_x < qr_version_width(img_version)
    /\ img_y < qr_version_width(img_version)
    /\ \E n \in { qr_image_next(img_version, img_x, img_y) } :
         /\ img_x' = n[1]
         /\ img_y' = n[2]
    /\ img_steps' = img_steps + 1
    /\ UNCHANGED << img_version, img_iter, img_bit, img_touched, img_rest,
                    img_prev, img_pc >>
    /\ UNCHANGED << gen_vars, drv_vars, rs_vars, it_vars, num_vars, fit_vars >>
    /\ UNCHANGED enc_vars
    /\ UNCHANGED pn_vars

(* the last module is reached *)
WalkEnd ==
    /\ img_pc = "walk"
    /\ qr_image_is_last(img_version, img_x, img_y)
    /\ img_pc' = "walked"
    /\ UNCHANGED << img_version, img_x, img_y, img_iter, img_bit,
                    img_touched, img_rest, img_steps, img_prev >>
    /\ UNCHANGED << gen_vars, drv_vars, rs_vars, it_vars, num_vars, fit_vars >>
    /\ UNCHANGED enc_vars
    /\ UNCHANGED pn_vars

WalkStep == WalkNext \/ WalkEnd

SpecWalk == WalkInit /\ [][WalkStep]_vars

(* Position of module << x, y >> (x # 6) in the placement order of the QR  *)
(* standard: column pairs from the right, column 6 left out, the right     *)
(* module of a row before the left one, the first pair upwards and the     *)
(* direction changing with every pair.                                     *)
StdRank(version, x, y) ==
    LET width == qr_version_width(version)
        xa    == IF x > 6 THEN x - 1 ELSE x
        pair  == (width - 2 - xa) \div 2
        left  == (width - 2 - xa) % 2
        row   == IF pair % 2 = 0 THEN width - 1 - y ELSE y
    IN pair * 2 * width + 2 * row + left

(* C23: for every version, qr_image_next applied again and again from      *)
(* (W-1, W-1) stays inside the image (no 8-bit wrap), never visits column  *)
(* 6, visits every module outside column 6 exactly once (its k-th step is  *)
(* on the k-th module of the standard order), and reaches the last module  *)
(* (0, W-1) after W*(W-1) - 1 steps.                                       *)
C23_Original ==
    img_pc \in {"walk", "walked"} =>
      /\ img_x < qr_version_width(img_version)
      /\ img_y < qr_version_width(img_version)
      /\ img_x # 6
      /\ img_steps = StdRank(img_version, img_x, img_y)
      /\ img_pc = "walked" =>
           img_steps = qr_version_width(img_version)
                         * (qr_version_width(img_version) - 1) - 1

(***************************************************************************)
(* qr_image_draw from the call of qr_image_draw_data on: one turn of a     *)
(* loop per step.  The fixed patterns have been drawn before; the format   *)
(* bits are stored by qr_image_draw_maskinfo between the two functions.    *)
(***************************************************************************)
ImgInit ==
    /\ img_version \in 1..40
    /\ img_x = qr_version_width(img_version) - 1
    /\ img_y = qr_version_width(img_version) - 1
    /\ img_iter = 0
    /\ img_bit = 7
    /\ img_touched = << >>
    /\ img_rest = 0
    /\ img_steps = 0
    /\ img_prev = -1
    /\ img_pc = "data"
    /\ GenParked
    /\ DrvParked
    /\ RsParked
    /\ ItParked
    /\ NumParked
    /\ FitParked
    /\ EncParked
    /\ PnParked

(* one turn of the for loop over the bits of a codeword: the module at     *)
(* << x, y >> is set if the bit is 0, then the walk moves on, or the for   *)
(* loop is left at the last module                                         *)
DrawDataBit ==
    /\ img_pc = "data"
    /\ encoded_msg_iterator_next(img_version, img_iter).ok
    /\ img_touched' = << img_x, img_y >>
    /\ img_prev' = StdRank(img_version, img_x, img_y)
    /\ IF ~qr_image_is_last(img_version, img_x, img_y)
       THEN /\ \E n \in { qr_image_next_available(img_version, img_x, img_y) } :
                 /\ img_x' = n[1]
                 /\ img_y' = n[2]
            /\ img_bit' = IF img_bit = 0 THEN 7 ELSE img_bit - 1
            /\ img_iter' = IF img_bit = 0 THEN img_iter + 1 ELSE img_iter
       ELSE /\ UNCHANGED << img_x, img_y >>
            /\ img_bit' = 7
            /\ img_iter' = img_iter + 1
    /\ UNCHANGED << img_version, img_rest, img_steps, img_pc >>
    /\ UNCHANGED << gen_vars, drv_vars, rs_vars, it_vars, num_vars, fit_vars >>
    /\ UNCHANGED enc_vars
    /\ UNCHANGED pn_vars

(* encoded_msg_iterator_next returns false: the codewords are placed *)
DrawDataEnd ==
    /\ img_pc = "data"
    /\ ~encoded_msg_iterator_next(img_version, img_iter).ok
    /\ img_pc' = "rest"
    /\ UNCHANGED << img_version, img_x, img_y, img_iter, img_bit,
                    img_touched, img_rest, img_steps, img_prev >>
    /\ UNCHANGED << gen_vars, drv_vars, rs_vars, it_vars, num_vars, fit_vars >>
    /\ UNCHANGED enc_vars
    /\ UNCHANGED pn_vars

(* one turn of the loop over the remaining modules *)
DrawRest ==
    /\ img_pc = "rest"
    /\ ~qr_image_is_last(img_version, img_x, img_y)
    /\ IF ~qr_image_is_reserved(img_version, img_x, img_y)
       THEN /\ img_touched' = << img_x, img_y >>
            /\ img_rest' = img_rest + 1
       ELSE UNCHANGED << img_touched, img_rest >>
    /\ \E n \in { qr_image_next(img_version, img_x, img_y) } :
         /\ img_x' = n[1]
         /\ img_y' = n[2]
    /\ UNCHANGED << img_version, img_iter, img_bit, img_steps, img_prev,
                    img_pc >>
    /\ UNCHANGED << gen_vars, drv_vars, rs_vars, it_vars, num_vars, fit_vars >>
    /\ UNCHANGED enc_vars
    /\ UNCHANGED pn_vars

(* qr_image_draw_data returns; qr_image_apply_mask starts at (0, 0) *)
DrawRestEnd ==
    /\ img_pc = "rest"
    /\ qr_image_is_last(img_version, img_x, img_y)
    /\ img_x' = 0
    /\ img_y' = 0
    /\ img_pc' = "mask"
    /\ UNCHANGED << img_version, img_iter, img_bit, img_touched, img_rest,
                    img_steps, img_prev >>
    /\ UNCHANGED << gen_vars, drv_vars, rs_vars, it_vars, num_vars, fit_vars >>
    /\ UNCHANGED enc_vars
    /\ UNCHANGED pn_vars

(* one turn of the inner loop of qr_image_apply_mask *)
ApplyMaskCell ==
    /\ img_pc = "mask"
    /\ img_x < qr_version_width(img_version)
    /\ IF (img_x + img_y) % 2 = 0
          /\ ~qr_image_is_reserved(img_version, img_x, img_y)
       THEN img_touched' = << img_x, img_y >>
       ELSE UNCHANGED img_touched
    /\ IF img_y + 1 < qr_version_width(img_version)
       THEN /\ img_y' = img_y + 1
            /\ UNCHANGED img_x
       ELSE /\ img_y' = 0
            /\ img_x' = img_x + 1
    /\ UNCHANGED << img_version, img_iter, img_bit, img_rest, img_steps,
                    img_prev, img_pc >>
    /\ UNCHANGED << gen_vars, drv_vars, rs_vars, it_vars, num_vars, fit_vars >>
    /\ UNCHANGED enc_vars
    /\ UNCHANGED pn_vars

(* qr_image_apply_mask returns *)
ApplyMaskEnd ==
    /\ img_pc = "mask"
    /\ img_x >= qr_version_width(img_version)
    /\ img_pc' = "done"
    /\ UNCHANGED << img_version, img_x, img_y, img_iter, img_bit,
                    img_touched, img_rest, img_steps, img_prev >>
    /\ UNCHANGED << gen_vars, drv_vars, rs_vars, it_vars, num_vars, fit_vars >>
    /\ UNCHANGED enc_vars
    /\ UNCHANGED pn_vars

ImgNext ==
    \/ DrawDataBit
    \/ DrawDataEnd
    \/ DrawRest
    \/ DrawRestEnd
    \/ ApplyMaskCell
    \/ ApplyMaskEnd

SpecImg == ImgInit /\ [][ImgNext]_vars

(* C22: once the fixed patterns are drawn, no module that                  *)
(* qr_image_draw_data sets or qr_image_apply_mask flips is reserved        *)
(* (finder and separator, row 6 and column 6, alignment, format stripes,   *)
(* version patches from version 7 on): the reserved modules keep the       *)
(* value the version-dependent patterns gave them.                         *)
C22_ReservedUntouched ==
    img_touched # << >> =>
      ~qr_image_is_reserved(img_version, img_touched[1], img_touched[2])

(* a codeword bit has been placed and the walk has stepped over reserved   *)
(* modules of a version with version patches to the next free one          *)
C22_Witness ==
    /\ img_pc = "data"
    /\ img_version >= 7
    /\ img_touched # << >>
    /\ qr_image_next(img_version, img_touched[1], img_touched[2])
         # << img_x, img_y >>
    /\ qr_image_is_version_info(img_version,
           qr_image_next(img_version, img_touched[1], img_touched[2])[1],
           qr_image_next(img_version, img_touched[1], img_touched[2])[2])

(* the non-reserved modules of the image *)
FreeCells(version) ==
    Cardinality({ c \in (0..(qr_version_width(version) - 1))
                        \X (0..(qr_version_width(version) - 1)) :
                  ~qr_image_is_reserved(version, c[1], c[2]) })

(* C24: for every version the non-reserved modules number at least         *)
(* 8 * (D(v) + E(v) * (g1 + g2)) and fewer than 8 more: every codeword bit *)
(* is placed on a non-reserved module of its own (later in the placement   *)
(* order than the one before) that is not the last module, and the loop    *)
(* after the codewords paints fewer than 8 modules, the leftover ones.     *)
C24_CodewordsFillTheImage ==
    /\ ( /\ img_pc = "data"
         /\ encoded_msg_iterator_next(img_version, img_iter).ok )
       => /\ ~qr_image_is_reserved(img_version, img_x, img_y)
          /\ ~qr_image_is_last(img_version, img_x, img_y)
          /\ StdRank(img_version, img_x, img_y) > img_prev
    /\ img_pc \in {"rest", "mask", "done"} =>
         /\ img_iter = required_size(img_version)
         /\ img_rest < 8
    /\ img_pc = "done" =>
         FreeCells(img_version) = 8 * required_size(img_version) + img_rest

(* version 2 is drawn: 352 codeword bits and 7 leftover modules *)
C24_Witness ==
    /\ img_pc = "done"
    /\ img_version = 2
    /\ img_iter = 44
    /\ img_rest = 7
    /\ FreeCells(2) = 359

(***************************************************************************)
(* The driver and the library together.                                    *)
(***************************************************************************)
(* a loop iteration of qrcon_process_history whose fitter call returned a  *)
(* frame: qrcon_render_qr's call of qr_generate returns the width 4v + 17  *)
C25_StepAfterFit ==
    drv_pc = "fitted" /\ compressed_size # 0 /\ drv_pc' = "loop" =>
      /\ qr_version \in 1..40
      /\ qr_payload_len' = compressed_size
      /\ qr_width' = 4 * qr_version + 17
      /\ last_event'.kind = "qr"

(* C25: in the driver loop, whenever the fitter returns a nonzero size the *)
(* call of qr_generate that follows succeeds and returns 4v + 17; the      *)
(* driver's static buffers of 8192 and 4096 bytes have the sizes           *)
(* qr_generate asks for.                                                   *)
C25_GenerateSucceeds ==
    /\ QR_PAYLOAD_AND_IMAGE_BUF_SIZE >= MIN_DATA_SIZE
    /\ QR_TMP_WORKSPACE_SIZE >= MIN_TMP_SIZE
    /\ [][C25_StepAfterFit]_vars

(* a frame that fills the byte capacity of version 1 has been drawn *)
C25_Witness ==
    /\ drv_pc = "loop"
    /\ last_event.kind = "qr"
    /\ qr_version = 1
    /\ qr_payload_len = qr_max_data_size(1, 0)
    /\ qr_width = 21

(***************************************************************************)
(* The panic notifier: qrcon_init, and invocations of                      *)
(* qrcon_panic_notifier one after the other, each running                  *)
(* qrcon_process_history (the driver's steps above) to its end.            *)
(***************************************************************************)
KMSG_HISTORY_BUF_SIZE == 10485760

(* invocations of the notifier in one run *)
MaxPanicCalls == 3

PanicVersions == {0, 1, 2}

(* the kernel log at the panic, as the lengths of its lines *)
PanicLogs == { << >>, << 5 >>, << 5, 7 >>, << 4, 0, 3 >>, << 3, 3, 3 >> }

(* variant: only the check of qrcon_initialized *)
notifier_returns_early_uninitialized_only(initialized, in_progress, complete) == ~initialized

(* the two early returns of qrcon_panic_notifier *)
notifier_returns_early(initialized, in_progress, complete) == ~initialized \/ (in_progress /\ complete)

(* the loop that appends the lines of the kernel log to the history        *)
(* buffer, from line i on: the new kmsg_history_len                        *)
RECURSIVE AppendLines(_, _, _)
AppendLines(history_len, lines, i) ==
    IF ~(history_len < KMSG_HISTORY_BUF_SIZE /\ i <= Len(lines))
    THEN history_len
    ELSE IF lines[i] = 0 THEN history_len
    ELSE IF history_len + lines[i] < KMSG_HISTORY_BUF_SIZE
    THEN AppendLines(history_len + lines[i], lines, i + 1)
    ELSE history_len

PanicInit ==
    /\ qr_version \in PanicVersions
    /\ recent_only \in {0, 1}
    /\ zstd \in ZstdProfiles
    /\ kmsg_history_len = 0
    /\ kmsg_history_pos = 0
    /\ qr_payload_and_image_buf = EmptyBuf
    /\ qr_payload_len = 0
    /\ qr_width = 0
    /\ compressed_size = 0
    /\ processed_src = 0
    /\ drv_pc = "idle"
    /\ entry_len = 0
    /\ start_pos = 0
    /\ iterations = 0
    /\ last_event = NoEvent
    /\ cover_to = 0
    /\ qrcon_initialized = FALSE
    /\ panic_in_progress = FALSE
    /\ panic_rendering_complete = FALSE
    /\ kmsg_lines \in PanicLogs
    /\ pn_pc = "idle"
    /\ pn_calls = << >>
    /\ pn_renders = 0
    /\ GenParked
    /\ RsParked
    /\ ItParked
    /\ NumParked
    /\ FitParked
    /\ EncParked
    /\ ImgParked

(* qrcon_init on the path that registers the notifier and returns 0 *)
QrconInit ==
    /\ pn_pc = "idle"
    /\ ~qrcon_initialized
    /\ qr_payload_len' = 0
    /\ qrcon_initialized' = TRUE
    /\ UNCHANGED << qr_version, recent_only, zstd, kmsg_history_len,
                    kmsg_history_pos, qr_payload_and_image_buf, qr_width,
                    compressed_size, processed_src, drv_pc, entry_len,
                    start_pos, iterations, last_event, cover_to >>
    /\ UNCHANGED << panic_in_progress, panic_rendering_complete, kmsg_lines,
                    pn_pc, pn_calls, pn_renders >>
    /\ UNCHANGED << gen_vars, rs_vars, it_vars, num_vars, fit_vars >>
    /\ UNCHANGED << enc_vars, img_vars >>

(* an invocation that returns NOTIFY_DONE at one of the two checks *)
NotifierReturnsEarly ==
    /\ pn_pc = "idle"
    /\ Len(pn_calls) < MaxPanicCalls
    /\ notifier_returns_early(qrcon_initialized, panic_in_progress,
                              panic_rendering_complete)
    /\ pn_calls' = Append(pn_calls, IF ~qrcon_initialized
                                    THEN "uninitialized" ELSE "complete")
    /\ UNCHANGED << qrcon_initialized, panic_in_progress,
                    panic_rendering_complete, kmsg_lines, pn_pc, pn_renders >>
    /\ UNCHANGED drv_vars
    /\ UNCHANGED << gen_vars, rs_vars, it_vars, num_vars, fit_vars >>
    /\ UNCHANGED << enc_vars, img_vars >>

(* an invocation that passes the checks: the flag is set, the lines of the *)
(* kernel log are appended to the history and qrcon_process_history is     *)
(* entered                                                                 *)
NotifierRenders ==
    /\ pn_pc = "idle"
    /\ Len(pn_calls) < MaxPanicCalls
    /\ ~notifier_returns_early(qrcon_initialized, panic_in_progress,
                               panic_rendering_complete)
    /\ panic_in_progress' = TRUE
    /\ kmsg_history_len' = AppendLines(kmsg_history_len, kmsg_lines, 1)
    /\ drv_pc' = "entry"
    /\ pn_pc' = "running"
    /\ pn_calls' = Append(pn_calls, "rendered")
    /\ pn_renders' = pn_renders + 1
    /\ UNCHANGED << qr_version, recent_only, zstd, kmsg_history_pos,
                    qr_payload_and_image_buf, qr_payload_len, qr_width,
                    compressed_size, processed_src, entry_len, start_pos,
                    iterations, last_event, cover_to >>
    /\ UNCHANGED << qrcon_initialized, panic_rendering_complete, kmsg_lines >>
    /\ UNCHANGED << gen_vars, rs_vars, it_vars, num_vars, fit_vars >>
    /\ UNCHANGED << enc_vars, img_vars >>

(* qrcon_process_history has returned: the invocation sets                 *)
(* panic_rendering_complete and returns                                    *)
NotifierCompletes ==
    /\ pn_pc = "running"
    /\ drv_pc = "done"
    /\ panic_rendering_complete' = TRUE
    /\ pn_pc' = "idle"
    /\ drv_pc' = "idle"
    /\ UNCHANGED << qr_version, recent_only, zstd, kmsg_history_len,
                    kmsg_history_pos, qr_payload_and_image_buf,
                    qr_payload_len, qr_width, compressed_size, processed_src,
                    entry_len, start_pos, iterations, last_event, cover_to >>
    /\ UNCHANGED << qrcon_initialized, panic_in_progress, kmsg_lines,
                    pn_calls, pn_renders >>
    /\ UNCHANGED << gen_vars, rs_vars, it_vars, num_vars, fit_vars >>
    /\ UNCHANGED << enc_vars, img_vars >>

PanicNext ==
    \/ QrconInit
    \/ NotifierReturnsEarly
    \/ NotifierRenders
    \/ ProcessHistoryEntry
    \/ CompressData
    \/ SkipAfterFailure
    \/ RenderAndAdvance
    \/ ProcessHistoryExit
    \/ NotifierCompletes

SpecPanic == PanicInit /\ [][PanicNext]_vars

(* what a step may do: an invocation made before qrcon_init has set        *)
(* qrcon_initialized changes nothing but the record of the calls, and once *)
(* panic_rendering_complete is set it stays set and the history buffer,    *)
(* the cursor, the payload and the screen are left alone                   *)
C29_Step ==
    /\ ( ~qrcon_initialized /\ pn_calls' # pn_calls ) =>
         /\ UNCHANGED drv_vars
         /\ UNCHANGED << qrcon_initialized, panic_in_progress,
                         panic_rendering_complete, pn_renders >>
    /\ panic_rendering_complete =>
         /\ panic_rendering_complete'
         /\ pn_renders' = pn_renders
         /\ UNCHANGED << kmsg_history_len, kmsg_history_pos,
                         qr_payload_and_image_buf, qr_payload_len, qr_width,
                         iterations, last_event >>

(* C29: across any sequence of invocations of the panic notifier the log   *)
(* is rendered at most once: an invocation before the module is            *)
(* initialised does nothing, and once an invocation has run to its end     *)
(* every later one returns without appending to the history, drawing or    *)
(* moving the cursor.                                                      *)
C29_RenderedAtMostOnce ==
    /\ [](pn_renders <= 1)
    /\ [][C29_Step]_vars

(* an invocation before qrcon_init, one that drew a QR code, one after it *)
C29_Witness ==
    /\ pn_calls = << "uninitialized", "rendered", "complete" >>
    /\ panic_rendering_complete
    /\ pn_renders = 1
    /\ last_event.kind = "qr"
    /\ kmsg_history_len = 0

(* the offset that the stepwise encoder reaches behind the terminator is   *)
(* the one the library model computes for the whole call                   *)
PushedBitsAgree ==
    enc_pc = "align"
      => enc_offset = PushedBits(enc_segments, enc_version, 1) + 4

(***************************************************************************)
(* The buffer sizes.  MIN_TMP_SIZE is the largest encoded message,         *)
(* MIN_DATA_SIZE the largest bitmap and MAX_BLK_SIZE + MAX_EC_SIZE the     *)
(* largest block with its parity, so that a call that passed the two       *)
(* minimum-size checks of qr_generate fails in no later size check and     *)
(* stays inside its three buffers.                                         *)
(***************************************************************************)
(* bytes of the scratch array that the division of a group-2 block uses:   *)
(* the last index is (size - 1) + (ec_size - 1) + 1                        *)
ScratchBytes(version) ==
    qr_version_g1_blk_size(version) + 1 + qr_version_ec_size(version)

BitmapBytes(version) == qr_image_stride(version) * qr_version_width(version)

(* an access of the call lies inside the buffer it goes to: tmp holds the  *)
(* encoded message, data the bitmap that is written and updated            *)
InBuffer(e, args) ==
    /\ 0 <= e.lo
    /\ e.lo <= e.hi
    /\ e.buf = "tmp" => e.hi <= args.tmp_size
    /\ (e.buf = "data" /\ e.op \in {"write", "update"})
         => e.hi <= args.data_size

(* C30: for every version 1..40 the encoded message takes at most          *)
(* MIN_TMP_SIZE bytes, the bitmap at most MIN_DATA_SIZE bytes and a block  *)
(* with its parity at most MAX_BLK_SIZE + MAX_EC_SIZE bytes; so a call of  *)
(* qr_generate with a valid version that passed the minimum-size checks    *)
(* fails only because the message does not fit the version, and none of    *)
(* its accesses to the encoded message or the bitmap is out of bounds.     *)
C30_BuffersSuffice ==
    (/\ gen_pc = "done"
     /\ ValidVersion(gen_args.qr_version)
     /\ gen_args.data_size >= MIN_DATA_SIZE
     /\ gen_args.tmp_size >= MIN_TMP_SIZE)
      => /\ required_size(gen_args.qr_version) <= MIN_TMP_SIZE
         /\ BitmapBytes(gen_args.qr_version) <= MIN_DATA_SIZE
         /\ ScratchBytes(gen_args.qr_version) <= MAX_BLK_SIZE + MAX_EC_SIZE
         /\ gen_ret = 0 => CapacityOverflow(gen_args)
         /\ \A i \in 1..Len(gen_events) : InBuffer(gen_events[i], gen_args)

(* a version 40 symbol drawn in buffers of exactly the minimum sizes, both *)
(* of which it fills; version 27 fills the scratch array                   *)
C30_Witness ==
    /\ gen_pc = "done"
    /\ gen_args.qr_version = 40
    /\ gen_args.data_size = MIN_DATA_SIZE
    /\ gen_args.tmp_size = MIN_TMP_SIZE
    /\ gen_ret = qr_version_width(40)
    /\ required_size(40) = MIN_TMP_SIZE
    /\ BitmapBytes(40) = MIN_DATA_SIZE
    /\ ScratchBytes(27) = MAX_BLK_SIZE + MAX_EC_SIZE
    /\ \E i \in 1..Len(gen_events) :
         gen_events[i].buf = "data" /\ gen_events[i].hi = MIN_DATA_SIZE

====
